---------------------------- MODULE Spec2Model ----------------------------
(***************************************************************************)
(* State-machine model of the streaming session subsystem of the           *)
(* real-time speech translation gateway:                                   *)
(*   - gospeech.PushAudioInputStream      (backend/gospeech/audio.go)      *)
(*   - gospeech.TranslationRecognizer     (backend/gospeech/translation.go)*)
(*   - handlers.WebSocketHandler and the activeSessions registry           *)
(*   - speech.SpeechClient session map                                     *)
(*                                                                         *)
(* Every per-session object is indexed by the connection c that created    *)
(* it (one push stream and one recognizer per WebSocket connection).       *)
(* Byte slices live in a heap of backing arrays so that aliasing is        *)
(* visible; the content of an array is a run [tag, off, len]: len bytes of *)
(* client frame tag starting at offset off.                                *)
(***************************************************************************)
EXTENDS Integers, Sequences, FiniteSets, TLC

VARIABLES
    heap,           \* backing arrays: heap[ref] is the content of array ref
    buffer,         \* PushAudioInputStream.buffer: queued array refs, per c
    closed,         \* PushAudioInputStream.closed, per c
    chClosed,       \* whether close(s.buffer) has happened, per c
    wpc,            \* the writing goroutine's position inside Write, per c
    wref,           \* dataCopy of the Write in progress, per c
    wret,           \* what the last Write returned, per c
    nWrites,        \* number of Write calls made, per c
    cpc,            \* the closing goroutine's position inside Close, per c
    nCloses,        \* number of Close calls that returned, per c
    callerBuf,      \* the array the generic caller reuses for every Write
    rdpc,           \* the generic reader's position inside Read, per c
    rdret,          \* what the last Read of the generic reader returned
    enq,            \* history: contents of the chunks enqueued, in order
    deq,            \* history: contents of the chunks dequeued, in order
    hpc,            \* WebSocketHandler's position, per connection c
    nFrames,        \* number of frames the client of c has sent
    clientSent,     \* history: contents of the client's binary frames
    continuousRunning, \* TranslationRecognizer.continuousRunning, per c
    stopCh,         \* TranslationRecognizer.stopCh: the channel it holds now
    stopClosed,     \* the stop channels that have been closed, per c
    ctxDone,        \* whether the context given to Start is cancelled
    workers,        \* the continuousRecognitionWorker goroutines started,
                    \* each with its result-receiving goroutine, per c
    events,         \* history: the events signalled by each run, in order
    upstream,       \* history: the binary frames sent to the provider
    nMsgs,          \* number of provider messages received, per c
    recClosed,      \* whether TranslationRecognizer.Close has been called
    apiRet,         \* what the last Start/Stop call returned, per c
    activeSessions, \* handlers.activeSessions: session id -> session (the
                    \* connection that made it) or NoSession
    sid,            \* the sessionId path parameter of connection c
    wsClosed,       \* whether conn.Close has been called on c's WebSocket
    rpc,            \* the CloseStreamingSessionHandler calls, per thread
    deleted,        \* history: ids whose delete returned, none stored since
    sessions,       \* SpeechClient.sessions: id -> session or NoSession
    nUuid,          \* number of ids SpeechClient has generated
    scDeleted,      \* history: SpeechClient ids whose delete returned
    scRet,          \* the last SpeechClient call that looked an id up
    clientFrames,   \* history: the frames written on c's WebSocket, in order
    wsWriting,      \* the conn.WriteJSON calls in progress on c's WebSocket
    connected,      \* whether the handler's callbacks are connected to the
                    \* recognizer's Recognized and Recognizing signals
    setup,          \* the kind of set-up frame the client of c sent
    nSeg,           \* number of SegmentID uuids generated
    curResult,      \* the result the result goroutine of c holds
    svcReq,         \* the request a caller of TranslationService holds
    svcRet,         \* what the last TranslationService or Validate call
                    \* was given and what it returned
    speechCalls,    \* number of calls made on the SpeechService
    nOps,           \* number of calls the caller has made
    clock,          \* what time.Now() returns
    lastAccess,     \* streamingSession.LastAccess of SpeechClient session id
    configClosed,   \* the sessions whose Config.Close has been called
    sweepSt,        \* the cleanupSessions call: its position, now, maxIdleTime
    lastSweep,      \* history: what the last finished sweep found and left
    outbound,       \* history: the envelopes written to the provider, per c
    nRid,           \* number of X-RequestId uuids generated
    inbound,        \* history: the provider frames receiveResults took, per c
    once,           \* the RecognizeOnce call on c's recognizer
    normCall,       \* a call of normalizeLanguageCode: arguments and result
    callbacks,      \* EventSignal.callbacks: the callbacks connected, in order
    mu,             \* EventSignal.mu: its writer and its readers
    sigCalls,       \* the Connect, Disconnect or Signal call of each goroutine
    sigHist,        \* history: callbacks made, callbacks dropped, calls made
    chunkCalls,     \* the sessions a ProcessAudioChunk call holds, found
                    \* under the mutex and not yet used
    usedAfterClose  \* history: the sessions whose Config was used closed

streamVars == <<heap, buffer, closed, chClosed, wpc, wref, wret, nWrites,
                cpc, nCloses, callerBuf, rdpc, rdret, enq, deq>>

handlerVars == <<hpc, nFrames, clientSent>>

recVars == <<continuousRunning, stopCh, stopClosed, ctxDone, workers, events,
             upstream, nMsgs, recClosed, apiRet>>

regVars == <<activeSessions, sid, wsClosed, rpc, deleted, sessions, nUuid,
             scDeleted, scRet>>

wsRest == <<clientFrames, wsWriting, setup, nSeg, curResult>>

wsVars == <<connected, wsRest>>

svcVars == <<svcReq, svcRet, speechCalls, nOps>>

sweepVars == <<clock, lastAccess, configClosed, sweepSt, lastSweep>>

outVars == <<outbound, nRid>>

inVars == <<inbound, once>>
langVars == <<normCall>>
sigVars == <<callbacks, mu, sigCalls, sigHist>>
chunkVars == <<chunkCalls, usedAfterClose>>

vars == <<streamVars, handlerVars, recVars, regVars, wsVars, svcVars, langVars, sigVars, chunkVars,
          sweepVars, outVars, inVars>>

--------------------------------------------------------------------------
(* Bounds of the model and constants of the program *)

BufferCap == 100
ReadSlot == 8192
KeyLogged == 5
MaxWrites == 3
MaxCloses == 2
MaxStarts == 2
MaxMsgs == 2
MaxCalls == 3
MaxTagLen == 4
MaxSigCalls == 4
SigThreads == 2
MaxFrames == 2
RecFrames == 1
FillFrames == 102
MaxConns == 2
MaxIds == 2
MaxRpcs == 1
MaxUuids == 2
RegUuids == 1
MaxClock == 3
MaxIdle == 1
MaxInits == 1
BridgeMsgs == 1
MaxOps == 2

Min(a, b) == IF a <= b THEN a ELSE b

NoRef == 0

NoSession == 0

--------------------------------------------------------------------------
(* Byte slices *)

Content(tag, len) == [tag |-> tag, off |-> 0, len |-> len]

\* copy(dst, src) with len(dst) = k: the bytes that land in dst[:n]
CopyInto(k, src) == [src EXCEPT !.len = Min(k, src.len)]

\* The payloads a caller may place in its buffer before a Write
CallerPayloads == {Content(t, 1) : t \in 1..2}

--------------------------------------------------------------------------
(* PushAudioInputStream *)

\* make(chan []byte, 100): a send proceeds only while the queue is not full
ChanCanSendUnbounded(q) == TRUE

ChanCanSend(q) == Len(q) < BufferCap

\* dataCopy := make([]byte, len(data)); copy(dataCopy, data):
\* the heap after the allocation, and the ref that is enqueued
WriteCopyHeap(h, d) == Append(h, h[d])

WriteCopyRefAlias(h, d) == d

WriteCopyRef(h, d) == Len(h) + 1

\* Write, up to the channel send: the closed check and the private copy.
\* h is the heap as the caller left it, d the caller's slice.
Write(c, h, d) ==
    /\ wpc[c] = "idle"
    /\ nWrites' = [nWrites EXCEPT ![c] = @ + 1]
    /\ IF closed[c]
       THEN /\ wret' = [wret EXCEPT ![c] = "err"]
            /\ heap' = h
            /\ UNCHANGED <<wpc, wref>>
       ELSE /\ heap' = WriteCopyHeap(h, d)
            /\ wref' = [wref EXCEPT ![c] = WriteCopyRef(h, d)]
            /\ wpc' = [wpc EXCEPT ![c] = "sending"]
            /\ wret' = [wret EXCEPT ![c] = "none"]
    /\ UNCHANGED <<buffer, closed, chClosed, enq, deq>>

\* s.buffer <- dataCopy: blocks while full, panics on a closed channel
WriteSend(c) ==
    /\ wpc[c] = "sending"
    /\ IF chClosed[c]
       THEN /\ wpc' = [wpc EXCEPT ![c] = "panic"]
            /\ wret' = [wret EXCEPT ![c] = "panic"]
            /\ UNCHANGED <<buffer, enq>>
       ELSE /\ ChanCanSend(buffer[c])
            /\ buffer' = [buffer EXCEPT ![c] = Append(@, wref[c])]
            /\ enq' = [enq EXCEPT ![c] = Append(@, heap[wref[c]])]
            /\ wpc' = [wpc EXCEPT ![c] = "idle"]
            /\ wret' = [wret EXCEPT ![c] = "ok"]
    /\ wref' = [wref EXCEPT ![c] = NoRef]
    /\ UNCHANGED <<heap, closed, chClosed, nWrites, deq>>

\* Read, first statement: if s.closed { return 0, io.EOF }
ReadSeesClosed(c) == closed[c]

\* Read, the select: a chunk if one is queued, else the default branch
\* (a closed, drained channel yields the zero value: n = 0 as well)
ReadSelect(q) ==
    IF Len(q) > 0
    THEN [got |-> TRUE, ref |-> Head(q), rest |-> Tail(q)]
    ELSE [got |-> FALSE, ref |-> NoRef, rest |-> q]

\* What Read returns to a reader whose slice p has k bytes
ReadResult(c, k) ==
    LET s == ReadSelect(buffer[c]) IN
    IF s.got
    THEN [err |-> "nil", n |-> Min(k, heap[s.ref].len),
          data |-> CopyInto(k, heap[s.ref])]
    ELSE [err |-> "nil", n |-> 0, data |-> Content(0, 0)]

ReadEOF == [err |-> "EOF", n |-> 0, data |-> Content(0, 0)]

\* The effect of the select on the stream
ReadDequeue(c) ==
    LET s == ReadSelect(buffer[c]) IN
    /\ buffer' = [buffer EXCEPT ![c] = s.rest]
    /\ deq' = [deq EXCEPT ![c] =
                 IF s.got THEN Append(@, heap[s.ref]) ELSE @]

\* Close: s.closed = true
CloseFlag(c) ==
    /\ cpc[c] = "idle"
    /\ nCloses[c] < MaxCloses
    /\ closed' = [closed EXCEPT ![c] = TRUE]
    /\ cpc' = [cpc EXCEPT ![c] = "closing"]
    /\ UNCHANGED <<heap, buffer, chClosed, wpc, wref, wret, nWrites,
                   nCloses, callerBuf, rdpc, rdret, enq, deq>>

\* Close: close(s.buffer); return nil.  Closing a closed channel panics.
CloseChan(c) ==
    /\ cpc[c] = "closing"
    /\ IF chClosed[c]
       THEN /\ cpc' = [cpc EXCEPT ![c] = "panic"]
            /\ UNCHANGED <<chClosed, nCloses>>
       ELSE /\ chClosed' = [chClosed EXCEPT ![c] = TRUE]
            /\ cpc' = [cpc EXCEPT ![c] = "idle"]
            /\ nCloses' = [nCloses EXCEPT ![c] = @ + 1]
    /\ UNCHANGED <<heap, buffer, closed, wpc, wref, wret, nWrites,
                   callerBuf, rdpc, rdret, enq, deq>>

--------------------------------------------------------------------------
(* A generic application using the stream: one writer that reuses its      *)
(* buffer, one reader, one closer.                                         *)

\* The caller calls Write on its buffer
CallerWrite(c) ==
    /\ nWrites[c] < MaxWrites
    /\ Write(c, heap, callerBuf[c])
    /\ UNCHANGED <<cpc, nCloses, callerBuf, rdpc, rdret>>

CallerWriteSend(c) ==
    /\ WriteSend(c)
    /\ UNCHANGED <<cpc, nCloses, callerBuf, rdpc, rdret>>

\* Between two Writes the caller refills its buffer with payload p
CallerReuse(c, p) ==
    /\ wpc[c] = "idle"
    /\ nWrites[c] < MaxWrites
    /\ heap[callerBuf[c]] # p
    /\ heap' = [heap EXCEPT ![callerBuf[c]] = p]
    /\ UNCHANGED <<buffer, closed, chClosed, wpc, wref, wret, nWrites, cpc,
                   nCloses, callerBuf, rdpc, rdret, enq, deq>>

\* The reader calls Read(p) with len(p) = ReadSlot: the closed check
ReaderRead(c) ==
    /\ rdpc[c] = "idle"
    /\ IF ReadSeesClosed(c)
       THEN /\ rdret' = [rdret EXCEPT ![c] = ReadEOF]
            /\ UNCHANGED rdpc
       ELSE /\ rdpc' = [rdpc EXCEPT ![c] = "select"]
            /\ rdret' = [rdret EXCEPT ![c] = [err |-> "none", n |-> 0,
                                              data |-> Content(0, 0)]]
    /\ UNCHANGED <<heap, buffer, closed, chClosed, wpc, wref, wret, nWrites,
                   cpc, nCloses, callerBuf, enq, deq>>

\* The reader's select on the channel
ReaderSelect(c) ==
    /\ rdpc[c] = "select"
    /\ rdret' = [rdret EXCEPT ![c] = ReadResult(c, ReadSlot)]
    /\ ReadDequeue(c)
    /\ rdpc' = [rdpc EXCEPT ![c] = "idle"]
    /\ UNCHANGED <<heap, closed, chClosed, wpc, wref, wret, nWrites,
                   cpc, nCloses, callerBuf, enq>>

InitStream(C) ==
    /\ heap = <<Content(1, 1)>>
    /\ buffer = [c \in C |-> <<>>]
    /\ closed = [c \in C |-> FALSE]
    /\ chClosed = [c \in C |-> FALSE]
    /\ wpc = [c \in C |-> "idle"]
    /\ wref = [c \in C |-> NoRef]
    /\ wret = [c \in C |-> "none"]
    /\ nWrites = [c \in C |-> 0]
    /\ cpc = [c \in C |-> "idle"]
    /\ nCloses = [c \in C |-> 0]
    /\ callerBuf = [c \in C |-> 1]
    /\ rdpc = [c \in C |-> "idle"]
    /\ rdret = [c \in C |-> [err |-> "none", n |-> 0, data |-> Content(0, 0)]]
    /\ enq = [c \in C |-> <<>>]
    /\ deq = [c \in C |-> <<>>]

--------------------------------------------------------------------------
(* WebSocketHandler: the read loop's binary frame path *)

\* conn.ReadMessage returns a binary frame of len bytes in a fresh slice;
\* a non-empty frame is written to the push stream
HandlerBinaryFrame(c, len) ==
    /\ hpc[c] = "loop"
    /\ wpc[c] = "idle"
    /\ LET msg == Content(nFrames[c] + 1, len) IN
       /\ nFrames' = [nFrames EXCEPT ![c] = @ + 1]
       /\ clientSent' = [clientSent EXCEPT ![c] = Append(@, msg)]
       /\ IF len > 0
          THEN Write(c, Append(heap, msg), Len(heap) + 1)
          ELSE UNCHANGED <<heap, buffer, closed, chClosed, wpc, wref, wret,
                           nWrites, enq, deq>>
    /\ UNCHANGED <<hpc, cpc, nCloses, callerBuf, rdpc, rdret>>

\* The handler is inside pushStream.Write, at the channel send
HandlerWriteSend(c) ==
    /\ hpc[c] = "loop"
    /\ WriteSend(c)
    /\ UNCHANGED <<handlerVars, cpc, nCloses, callerBuf, rdpc, rdret>>

InitHandler(C, at) ==
    /\ hpc = [c \in C |-> at]
    /\ nFrames = [c \in C |-> 0]
    /\ clientSent = [c \in C |-> <<>>]

--------------------------------------------------------------------------
(* TranslationRecognizer: continuous recognition *)

NewWorker == [pc |-> "started", upc |-> "none", rpc |-> "none", errCh |-> 0,
              rd |-> Content(0, 0)]

SetW(c, w, f, v) == [workers EXCEPT ![c][w][f] = v]

SignalLost(c, w, ev) == events' = events

\* EventSignal.Signal on one of the recognizer's event streams, by run w
Signal(c, w, ev) ==
    events' = [events EXCEPT ![c][w] = Append(@, ev)]

\* StartContinuousRecognitionAsync, under continuousMutex
StartContinuousRecognition(c) ==
    /\ IF continuousRunning[c]
       THEN /\ apiRet' = [apiRet EXCEPT ![c] = "errRunning"]
            /\ UNCHANGED <<continuousRunning, stopCh, workers, events>>
       ELSE /\ continuousRunning' = [continuousRunning EXCEPT ![c] = TRUE]
            /\ stopCh' = [stopCh EXCEPT ![c] = Len(workers[c]) + 1]
            /\ workers' = [workers EXCEPT ![c] = Append(@, NewWorker)]
            /\ events' = [events EXCEPT ![c] = Append(@, <<>>)]
            /\ apiRet' = [apiRet EXCEPT ![c] = "ok"]
    /\ UNCHANGED <<stopClosed, ctxDone, upstream, nMsgs, recClosed>>

StopContinuousRecognitionUnguarded(c) ==
    /\ stopClosed' = [stopClosed EXCEPT ![c] = @ \cup {stopCh[c]}]
    /\ continuousRunning' = [continuousRunning EXCEPT ![c] = FALSE]
    /\ apiRet' = [apiRet EXCEPT ![c] =
                    IF stopCh[c] \in stopClosed[c] THEN "panic" ELSE "ok"]
    /\ UNCHANGED <<stopCh, ctxDone, workers, events, upstream, nMsgs,
                   recClosed>>

\* StopContinuousRecognitionAsync, under continuousMutex
StopContinuousRecognition(c) ==
    /\ IF ~continuousRunning[c]
       THEN /\ apiRet' = [apiRet EXCEPT ![c] = "errNotRunning"]
            /\ UNCHANGED <<continuousRunning, stopClosed>>
       ELSE /\ stopClosed' = [stopClosed EXCEPT ![c] = @ \cup {stopCh[c]}]
            /\ continuousRunning' = [continuousRunning EXCEPT ![c] = FALSE]
            /\ apiRet' = [apiRet EXCEPT ![c] =
                            IF stopCh[c] \in stopClosed[c]
                            THEN "panic" ELSE "ok"]
    /\ UNCHANGED <<stopCh, ctxDone, workers, events, upstream, nMsgs,
                   recClosed>>

\* The cancel function of the context passed to Start is called
CancelContext(c) ==
    /\ ~ctxDone[c]
    /\ ctxDone' = [ctxDone EXCEPT ![c] = TRUE]
    /\ UNCHANGED <<continuousRunning, stopCh, stopClosed, workers, events,
                   upstream, nMsgs, recClosed, apiRet>>

\* continuousRecognitionWorker: r.raiseSessionStarted()
WorkerSessionStarted(c, w) ==
    /\ workers[c][w].pc = "started"
    /\ Signal(c, w, "sessionStarted")
    /\ workers' = SetW(c, w, "pc", "connect")
    /\ UNCHANGED <<continuousRunning, stopCh, stopClosed, ctxDone, upstream,
                   nMsgs, recClosed, apiRet>>

\* continuousRecognitionWorker: connectToSpeechService; on failure canceled
\* is raised and the worker returns; on success conn.close is deferred and
\* the result-receiving goroutine is started
WorkerConnect(c, w, ok) ==
    /\ workers[c][w].pc = "connect"
    /\ IF ok
       THEN /\ workers' = [workers EXCEPT ![c][w] =
                  [@ EXCEPT !.pc = "loop", !.upc = "open", !.rpc = "recv"]]
            /\ UNCHANGED events
       ELSE /\ Signal(c, w, "canceled")
            /\ workers' = SetW(c, w, "pc", "done")
    /\ UNCHANGED <<continuousRunning, stopCh, stopClosed, ctxDone, upstream,
                   nMsgs, recClosed, apiRet>>

\* The channels a read of the field r.stopCh by worker w can yield.  The
\* worker reads the field without continuousMutex, so a read races with the
\* assignment of a later Start: it yields the channel made for the worker's
\* own run or one made since.
SeenStopCh(c, w) == w..stopCh[c]

\* The cases of the worker's select that can proceed, ch being the channel
\* the stop case receives from
ReadyCases(c, w, ch) ==
    (IF ch \in stopClosed[c] THEN {"stop"} ELSE {})
    \cup (IF ctxDone[c] THEN {"ctx"} ELSE {})
    \cup (IF workers[c][w].errCh > 0 THEN {"err"} ELSE {})

\* One pass of the select: a ready case (any of them), else the default
WorkerSelect(c, w) ==
    /\ workers[c][w].pc = "loop"
    /\ \E ch \in SeenStopCh(c, w) :
         IF ReadyCases(c, w, ch) = {}
         THEN /\ workers' = SetW(c, w, "pc", "read")
              /\ UNCHANGED events
         ELSE \E case \in ReadyCases(c, w, ch) :
                IF case = "err"
                THEN /\ Signal(c, w, "canceled")
                     /\ workers' = [workers EXCEPT ![c][w] =
                           [@ EXCEPT !.pc = "closing", !.errCh = 0]]
                ELSE /\ Signal(c, w, "sessionStopped")
                     /\ workers' = SetW(c, w, "pc", "closing")
    /\ UNCHANGED <<continuousRunning, stopCh, stopClosed, ctxDone, upstream,
                   nMsgs, recClosed, apiRet>>

\* default: n, err := audioSource.Read(buffer) -- Read's closed check;
\* io.EOF raises sessionStopped and the worker returns
WorkerRead(c, w) ==
    /\ workers[c][w].pc = "read"
    /\ IF ReadSeesClosed(c)
       THEN /\ Signal(c, w, "sessionStopped")
            /\ workers' = SetW(c, w, "pc", "closing")
       ELSE /\ workers' = SetW(c, w, "pc", "readsel")
            /\ UNCHANGED events
    /\ UNCHANGED <<continuousRunning, stopCh, stopClosed, ctxDone, upstream,
                   nMsgs, recClosed, apiRet>>
    /\ UNCHANGED streamVars

\* default: Read's select; n > 0 goes on to send buffer[:n], n = 0 sleeps
WorkerReadSelect(c, w) ==
    /\ workers[c][w].pc = "readsel"
    /\ LET r == ReadResult(c, ReadSlot) IN
       workers' = [workers EXCEPT ![c][w] =
           [@ EXCEPT !.pc = IF r.n > 0 THEN "send" ELSE "loop",
                     !.rd = r.data]]
    /\ ReadDequeue(c)
    /\ UNCHANGED <<heap, closed, chClosed, wpc, wref, wret, nWrites, cpc,
                   nCloses, callerBuf, rdpc, rdret, enq>>
    /\ UNCHANGED <<continuousRunning, stopCh, stopClosed, ctxDone, events,
                   upstream, nMsgs, recClosed, apiRet>>

\* An envelope written to the provider: its Path and its X-RequestId
Envelope(w, path, rid) == [run |-> w, path |-> path, rid |-> rid]

\* sendAudioData: requestID := uuid.New(); the configuration message and
\* the audio header are written with it, then the binary audio
SendAudioDataEnvelopes(w, rid) ==
    <<Envelope(w, "speech.config", rid), Envelope(w, "audio", rid)>>

\* conn.sendAudioData(buffer[:n]): the binary frame carries buffer[:n]; a
\* failed send raises canceled and the worker returns
WorkerSend(c, w, ok) ==
    /\ workers[c][w].pc = "send"
    /\ nRid' = nRid + 1
    /\ IF ok /\ workers[c][w].upc = "open"
       THEN /\ upstream' = [upstream EXCEPT ![c] =
                              Append(@, [run |-> w, data |-> workers[c][w].rd])]
            /\ outbound' = [outbound EXCEPT ![c] =
                              @ \o SendAudioDataEnvelopes(w, nRid + 1)]
            /\ workers' = SetW(c, w, "pc", "loop")
            /\ UNCHANGED events
       ELSE /\ Signal(c, w, "canceled")
            /\ workers' = SetW(c, w, "pc", "closing")
            /\ UNCHANGED <<upstream, outbound>>
    /\ UNCHANGED <<continuousRunning, stopCh, stopClosed, ctxDone, nMsgs,
                   recClosed, apiRet>>

\* The deferred conn.close() runs as the worker returns
WorkerCloseConn(c, w) ==
    /\ workers[c][w].pc = "closing"
    /\ workers' = [workers EXCEPT ![c][w] =
          [@ EXCEPT !.pc = "done", !.upc = "closed"]]
    /\ UNCHANGED <<continuousRunning, stopCh, stopClosed, ctxDone, events,
                   upstream, nMsgs, recClosed, apiRet>>

\* The kinds of outcome of conn.receiveResults on an open connection:
\* a final speech.phrase (result != nil), any other message (nil, nil), or
\* an error (read error, malformed message)
ReceiveKinds == {"final", "nil", "err"}

ResultReceiveKeepsReading(c, w, kind) ==
    /\ workers[c][w].rpc = "recv"
    /\ IF workers[c][w].upc = "closed" \/ kind = "err"
       THEN /\ workers' = [workers EXCEPT ![c][w] =
                  [@ EXCEPT !.errCh = @ + 1]]
            /\ UNCHANGED nMsgs
       ELSE /\ nMsgs' = [nMsgs EXCEPT ![c] = @ + 1]
            /\ workers' = SetW(c, w, "rpc",
                               IF kind = "final" THEN "raise1" ELSE "recv")
    /\ UNCHANGED <<continuousRunning, stopCh, stopClosed, ctxDone, events,
                   upstream, recClosed, apiRet>>

\* Result goroutine: result, err := conn.receiveResults()
ResultReceive(c, w, kind) ==
    /\ workers[c][w].rpc = "recv"
    /\ IF workers[c][w].upc = "closed" \/ kind = "err"
       THEN /\ workers' = [workers EXCEPT ![c][w] =
                  [@ EXCEPT !.rpc = "done", !.errCh = @ + 1]]
            /\ UNCHANGED nMsgs
       ELSE /\ nMsgs' = [nMsgs EXCEPT ![c] = @ + 1]
            /\ workers' = SetW(c, w, "rpc",
                               IF kind = "final" THEN "raise1" ELSE "recv")
    /\ UNCHANGED <<continuousRunning, stopCh, stopClosed, ctxDone, events,
                   upstream, recClosed, apiRet>>

\* Result goroutine: r.raiseRecognizing(result)
ResultRaiseRecognizing(c, w) ==
    /\ workers[c][w].rpc = "raise1"
    /\ Signal(c, w, "recognizing")
    /\ workers' = SetW(c, w, "rpc", "raise2")
    /\ UNCHANGED <<continuousRunning, stopCh, stopClosed, ctxDone, upstream,
                   nMsgs, recClosed, apiRet>>

\* Result goroutine: r.raiseRecognized(result)
ResultRaiseRecognized(c, w) ==
    /\ workers[c][w].rpc = "raise2"
    /\ Signal(c, w, "recognized")
    /\ workers' = SetW(c, w, "rpc", "recv")
    /\ UNCHANGED <<continuousRunning, stopCh, stopClosed, ctxDone, upstream,
                   nMsgs, recClosed, apiRet>>

\* A text frame from the provider: its Path header and its body
ProviderPaths ==
    {"turn.start", "speech.hypothesis", "speech.phrase", "speech.keyword"}

\* Bodies: a JSON object with "type": "final", a JSON object without it,
\* an empty body, text that is no JSON, and JSON holding a blank line
ProviderBodies == {"final", "object", "empty", "text", "blankline"}

ProviderFrames == [path : ProviderPaths, body : ProviderBodies]

\* strings.Split(message, "\r\n\r\n"): the number of parts
SplitParts(m) == IF m.body = "blankline" THEN 3 ELSE 2

\* json.Unmarshal([]byte(body), &response) succeeds
JsonParses(m) == m.body \in {"final", "object"}

\* receiveResults on a text frame: "err", "final" (a result) or "nil"
ReceiveResults(m) ==
    IF SplitParts(m) # 2 THEN "err"
    ELSE IF ~JsonParses(m) THEN "err"
    ELSE IF m.path = "speech.phrase" /\ m.body = "final" THEN "final"
    ELSE "nil"

--------------------------------------------------------------------------
(* EventSignal: Connect, Disconnect and Signal of one signal, called by    *)
(* several goroutines.  A callback is named by the number of the Connect   *)
(* call that registered it.                                                *)

Goroutines == 1..SigThreads

NoGoroutine == 0

IdleCall == [pc |-> "idle", op |-> "none", snap |-> <<>>, made |-> <<>>]

\* s.mu.Lock() succeeds: no writer and no reader holds the mutex
CanLock(m) == m.w = NoGoroutine /\ m.r = {}

\* s.mu.RLock() succeeds: no writer holds the mutex
CanRLock(m) == m.w = NoGoroutine

\* make([]EventCallback, 0) in Disconnect: what replaces s.callbacks
DisconnectKeeps(cbs) == cbs

DisconnectAll(cbs) == <<>>

\* A call is made: one more call in the history
SigCallMade == sigHist' = [sigHist EXCEPT !.nCalls = @ + 1]

\* Connect or Disconnect: s.mu.Lock()
SigLock(t, op) ==
    /\ sigCalls[t].pc = "idle"
    /\ sigHist.nCalls < MaxSigCalls
    /\ CanLock(mu)
    /\ mu' = [mu EXCEPT !.w = t]
    /\ sigCalls' = [sigCalls EXCEPT ![t] = [IdleCall EXCEPT !.pc = "locked",
                                                             !.op = op]]
    /\ SigCallMade
    /\ UNCHANGED callbacks

\* Connect: s.callbacks = append(s.callbacks, callback); s.mu.Unlock()
SigConnect(t) ==
    /\ sigCalls[t].pc = "locked"
    /\ sigCalls[t].op = "Connect"
    /\ callbacks' = Append(callbacks, sigHist.nCb + 1)
    /\ sigHist' = [sigHist EXCEPT !.nCb = @ + 1]
    /\ mu' = [mu EXCEPT !.w = NoGoroutine]
    /\ sigCalls' = [sigCalls EXCEPT ![t].pc = "idle"]

\* Disconnect: s.callbacks = make([]EventCallback, 0); s.mu.Unlock()
SigDisconnect(t) ==
    /\ sigCalls[t].pc = "locked"
    /\ sigCalls[t].op = "Disconnect"
    /\ callbacks' = DisconnectAll(callbacks)
    /\ sigHist' = [sigHist EXCEPT
                     !.dropped = @ \cup {callbacks[i] : i \in 1..Len(callbacks)}]
    /\ mu' = [mu EXCEPT !.w = NoGoroutine]
    /\ sigCalls' = [sigCalls EXCEPT ![t].pc = "idle"]

\* Signal: s.mu.RLock(); the range expression s.callbacks is evaluated
SigRLock(t) ==
    /\ sigCalls[t].pc = "idle"
    /\ sigHist.nCalls < MaxSigCalls
    /\ CanRLock(mu)
    /\ mu' = [mu EXCEPT !.r = @ \cup {t}]
    /\ sigCalls' = [sigCalls EXCEPT ![t] = [pc |-> "range", op |-> "Signal",
                                            snap |-> callbacks, made |-> <<>>]]
    /\ SigCallMade
    /\ UNCHANGED callbacks

\* Signal: callback(args) for the next callback of the range, on the
\* goroutine of the Signal call.  The callbacks WebSocketHandler connects
\* call conn.WriteJSON(response): the goroutine is then suspended in the
\* write on the client's WebSocket.
SigInvoke(t) ==
    /\ sigCalls[t].pc = "range"
    /\ Len(sigCalls[t].made) < Len(sigCalls[t].snap)
    /\ LET cb == sigCalls[t].snap[Len(sigCalls[t].made) + 1]
       IN  sigCalls' = [sigCalls EXCEPT
                          ![t].pc = "callback",
                          ![t].made = Append(@, [cb |-> cb,
                                                 live |-> cb \notin sigHist.dropped,
                                                 by |-> t])]
    /\ UNCHANGED <<callbacks, mu, sigHist>>

\* conn.WriteJSON(response) returns and with it the callback
SigCallbackReturns(t) ==
    /\ sigCalls[t].pc = "callback"
    /\ sigCalls' = [sigCalls EXCEPT ![t].pc = "range"]
    /\ UNCHANGED <<callbacks, mu, sigHist>>

\* Signal: the range is over; s.mu.RUnlock()
SigReturn(t) ==
    /\ sigCalls[t].pc = "range"
    /\ Len(sigCalls[t].made) = Len(sigCalls[t].snap)
    /\ mu' = [mu EXCEPT !.r = @ \ {t}]
    /\ sigCalls' = [sigCalls EXCEPT ![t].pc = "idle"]
    /\ UNCHANGED <<callbacks, sigHist>>

InitSignal ==
    /\ callbacks = <<>>
    /\ mu = [w |-> NoGoroutine, r |-> {}]
    /\ sigCalls = [t \in Goroutines |-> IdleCall]
    /\ sigHist = [nCb |-> 0, dropped |-> {}, nCalls |-> 0]

\* No call of normalizeLanguageCode
NoNormalize ==
    [lang |-> <<>>, isSourceLanguage |-> FALSE, ret |-> <<>>, done |-> TRUE,
     trip |-> <<>>, tripped |-> TRUE]

InitLang(N) == normCall \in N

\* A recognizer on which RecognizeOnce has not been called
NoCall ==
    [pc |-> "idle", events |-> <<>>, reads |-> 0, sent |-> FALSE,
     ret |-> "none", calls |-> 0]

InitWire(C) ==
    /\ outbound = [c \in C |-> <<>>]
    /\ nRid = 0
    /\ inbound = [c \in C |-> <<>>]
    /\ once = [c \in C |-> NoCall]

\* Result goroutine: result, err := conn.receiveResults() takes the text
\* frame m from an open connection
ResultReceiveFrame(c, w, m) ==
    /\ ResultReceive(c, w, ReceiveResults(m))
    /\ inbound' = IF workers[c][w].upc = "closed" THEN inbound
                  ELSE [inbound EXCEPT ![c] = Append(@, m)]
    /\ UNCHANGED once

InitRec(C) ==
    /\ continuousRunning = [c \in C |-> FALSE]
    /\ stopCh = [c \in C |-> 0]
    /\ stopClosed = [c \in C |-> {}]
    /\ ctxDone = [c \in C |-> FALSE]
    /\ workers = [c \in C |-> <<>>]
    /\ events = [c \in C |-> <<>>]
    /\ upstream = [c \in C |-> <<>>]
    /\ nMsgs = [c \in C |-> 0]
    /\ recClosed = [c \in C |-> FALSE]
    /\ apiRet = [c \in C |-> "none"]

--------------------------------------------------------------------------
(* Go maps keyed by session id: activeSessions and SpeechClient.sessions *)

\* m[id] = session
MapStore(m, id, session) == [m EXCEPT ![id] = session]

MapDeleteKeeps(m, id) == m

\* delete(m, id)
MapDelete(m, id) == [m EXCEPT ![id] = NoSession]

\* session, exists := m[id]
MapLookup(m, id) == [session |-> m[id], exists |-> m[id] # NoSession]

--------------------------------------------------------------------------
(* TranslationRecognizer.Close and the session's cancel function *)

\* The result goroutine of run w is the writer w of the WebSocket; the
\* handler's own goroutine is the writer HandlerWriter
HandlerWriter == 0

\* Whether a callback is running inside EventSignal.Signal (which holds the
\* signal's read lock for as long as its callbacks run)
CallbackRunning(c) == \E g \in wsWriting[c] : g.by # HandlerWriter

\* Close: stops continuous recognition if it is running and disconnects
\* every event signal (Disconnect takes the signal's write lock, so it
\* waits for a running callback); the audio config of a push stream
\* closes nothing
RecognizerClose(c) ==
    /\ ~CallbackRunning(c)
    /\ connected' = [connected EXCEPT ![c] = FALSE]
    /\ recClosed' = [recClosed EXCEPT ![c] = TRUE]
    /\ IF continuousRunning[c]
       THEN /\ stopClosed' = [stopClosed EXCEPT ![c] = @ \cup {stopCh[c]}]
            /\ continuousRunning' = [continuousRunning EXCEPT ![c] = FALSE]
       ELSE UNCHANGED <<stopClosed, continuousRunning>>
    /\ UNCHANGED <<stopCh, ctxDone, workers, events, upstream, nMsgs, apiRet>>

\* cancel() of the context made by WebSocketHandler
CancelFunc(c) ==
    /\ ctxDone' = [ctxDone EXCEPT ![c] = TRUE]
    /\ UNCHANGED <<continuousRunning, stopCh, stopClosed, workers, events,
                   upstream, nMsgs, recClosed, apiRet>>

--------------------------------------------------------------------------
(* WebSocketHandler: session set-up and teardown *)

Conns == 1..MaxConns
SessionIds == 1..MaxIds
RpcThreads == 1..MaxRpcs
Uuids == 1..MaxUuids

\* Upgrade, configuration, the client's set-up message and the creation of
\* the recognizer; any failure ends the handler before registration
HandlerConnect(c, id, ok) ==
    /\ hpc[c] = "idle"
    /\ sid' = [sid EXCEPT ![c] = id]
    /\ hpc' = [hpc EXCEPT ![c] = IF ok THEN "register" ELSE "done"]
    /\ wsClosed' = [wsClosed EXCEPT ![c] = ~ok]
    /\ UNCHANGED <<nFrames, clientSent, activeSessions, rpc, deleted,
                   sessions, nUuid, scDeleted, scRet>>

\* activeSessions[sessionID] = session, under activeSessionsMutex
HandlerRegister(c) ==
    /\ hpc[c] = "register"
    /\ activeSessions' = MapStore(activeSessions, sid[c], c)
    /\ deleted' = deleted \ {sid[c]}
    /\ hpc' = [hpc EXCEPT ![c] = "ready"]
    /\ UNCHANGED <<nFrames, clientSent, sid, wsClosed, rpc, sessions, nUuid,
                   scDeleted, scRet>>

\* A frame on the client's WebSocket: its kind, its SegmentID (0: none),
\* the result it reports (0: none) and whether the write started on a
\* connection that conn.Close had already been called on
Frame(kind, seg, res, late) ==
    [kind |-> kind, seg |-> seg, res |-> res, late |-> late]

\* conn.WriteJSON({"status": "ready", ...}); then the callbacks are connected
\* to recognizer.Recognized() and recognizer.Recognizing()
HandlerReady(c) ==
    /\ hpc[c] = "ready"
    /\ clientFrames' = [clientFrames EXCEPT ![c] =
                          Append(@, Frame("ready", 0, 0, wsClosed[c]))]
    /\ connected' = [connected EXCEPT ![c] = TRUE]
    /\ hpc' = [hpc EXCEPT ![c] = "start"]
    /\ UNCHANGED <<nFrames, clientSent, wsWriting, setup, nSeg, curResult>>

InitWs(C) ==
    /\ clientFrames = [c \in C |-> <<>>]
    /\ wsWriting = [c \in C |-> {}]
    /\ connected = [c \in C |-> FALSE]
    /\ setup = [c \in C |-> "none"]
    /\ nSeg = 0
    /\ curResult = [c \in C |-> [id |-> 0, has |-> FALSE]]

\* recognizer.StartContinuousRecognition(ctx); on error the connection is
\* closed and the handler returns
HandlerStart(c) ==
    /\ hpc[c] = "start"
    /\ StartContinuousRecognition(c)
    /\ hpc' = [hpc EXCEPT ![c] = IF continuousRunning[c] THEN "done"
                                                           ELSE "loop"]
    /\ wsClosed' = [wsClosed EXCEPT ![c] = @ \/ continuousRunning[c]]
    /\ UNCHANGED <<nFrames, clientSent, activeSessions, sid, rpc, deleted,
                   sessions, nUuid, scDeleted, scRet>>

\* conn.ReadMessage fails (the client went away or the connection was
\* closed): recognizer.StopContinuousRecognition()
HandlerReadError(c) ==
    /\ hpc[c] = "loop"
    /\ StopContinuousRecognition(c)
    /\ hpc' = [hpc EXCEPT ![c] = "recclose"]
    /\ UNCHANGED <<nFrames, clientSent, regVars>>

\* read-error path: recognizer.Close()
HandlerRecognizerClose(c) ==
    /\ hpc[c] = "recclose"
    /\ RecognizerClose(c)
    /\ hpc' = [hpc EXCEPT ![c] = "cancel"]
    /\ UNCHANGED <<nFrames, clientSent, regVars, wsRest>>

\* text message "end": recognizer.StopContinuousRecognition()
HandlerEnd(c) ==
    /\ hpc[c] = "loop"
    /\ ~wsClosed[c]
    /\ StopContinuousRecognition(c)
    /\ hpc' = [hpc EXCEPT ![c] = "cancel"]
    /\ UNCHANGED <<nFrames, clientSent, regVars>>

\* cleanup: cancel()
HandlerCleanupCancel(c) ==
    /\ hpc[c] = "cancel"
    /\ CancelFunc(c)
    /\ hpc' = [hpc EXCEPT ![c] = "delete"]
    /\ UNCHANGED <<nFrames, clientSent, regVars>>

\* cleanup: delete(activeSessions, sessionID), under activeSessionsMutex
HandlerCleanupDelete(c) ==
    /\ hpc[c] = "delete"
    /\ activeSessions' = MapDelete(activeSessions, sid[c])
    /\ deleted' = deleted \cup {sid[c]}
    /\ hpc' = [hpc EXCEPT ![c] = "wsclose"]
    /\ UNCHANGED <<nFrames, clientSent, sid, wsClosed, rpc, sessions, nUuid,
                   scDeleted, scRet>>

\* cleanup: conn.Close()
HandlerCleanupClose(c) ==
    /\ hpc[c] = "wsclose"
    /\ wsClosed' = [wsClosed EXCEPT ![c] = TRUE]
    /\ hpc' = [hpc EXCEPT ![c] = "done"]
    /\ UNCHANGED <<nFrames, clientSent, activeSessions, sid, rpc, deleted,
                   sessions, nUuid, scDeleted, scRet>>

--------------------------------------------------------------------------
(* WebSocketHandler: the set-up frame, the init message and the callbacks   *)
(* that write results on the client's WebSocket                            *)

\* The set-up frames a client may send: a valid one, one with an empty
\* audioFormat, one with an audioFormat outside wav, mp3, ogg, flac, one
\* with a language the normalizer rejects
SetupKinds == {"valid", "emptyFormat", "badFormat", "badLang"}

\* sendAudioData: normalizeLanguageCode accepts the source language and
\* every target language
LanguagesAccepted(kind) == kind # "badLang"

\* conn.ReadJSON(&setupMsg) and the rest of the set-up: the frame's fields
\* are copied into the translation config as they are.  When the set-up
\* fails (ok is FALSE: the configuration cannot be created or no JSON frame
\* can be read) no set-up frame has been taken in.
HandlerReadSetup(c, id, kind, ok) ==
    /\ HandlerConnect(c, id, ok)
    /\ setup' = [setup EXCEPT ![c] = IF ok THEN kind ELSE "unread"]
    /\ UNCHANGED <<clientFrames, wsWriting, connected, nSeg, curResult>>

\* The lengths the configured subscription key may have
KeyLens == {KeyLogged - 1, KeyLogged}

\* speechSubscriptionKey[:5] in the handler's log line: a key shorter than
\* five bytes panics; the router's recovery middleware ends the request, the
\* handler's goroutine returns with nothing cleaned up and nothing signalled
HandlerKeyPanics(c, id, keyLen) ==
    /\ hpc[c] = "idle"
    /\ keyLen < KeyLogged
    /\ sid' = [sid EXCEPT ![c] = id]
    /\ hpc' = [hpc EXCEPT ![c] = "panicked"]
    /\ UNCHANGED <<nFrames, clientSent, activeSessions, wsClosed, rpc, deleted,
                   sessions, nUuid, scDeleted, scRet>>

\* A conn.WriteJSON call by goroutine by
WriteCall(by, frame) == [by |-> by, frame |-> frame]

Writing(c, by) == \E g \in wsWriting[c] : g.by = by

\* text message "init": conn.WriteJSON(initResponse) is entered
HandlerInit(c) ==
    /\ hpc[c] = "loop"
    /\ ~wsClosed[c]
    /\ wsWriting' = [wsWriting EXCEPT ![c] = @ \cup
          {WriteCall(HandlerWriter, Frame("init_response", 0, 0, wsClosed[c]))}]
    /\ hpc' = [hpc EXCEPT ![c] = "initwrite"]
    /\ UNCHANGED <<nFrames, clientSent, clientFrames, connected, setup, nSeg,
                   curResult>>

\* conn.WriteJSON(initResponse) returns; the read loop goes on
HandlerInitDone(c) ==
    /\ hpc[c] = "initwrite"
    /\ \E g \in wsWriting[c] :
          /\ g.by = HandlerWriter
          /\ wsWriting' = [wsWriting EXCEPT ![c] = @ \ {g}]
          /\ clientFrames' = [clientFrames EXCEPT ![c] = Append(@, g.frame)]
    /\ hpc' = [hpc EXCEPT ![c] = "loop"]
    /\ UNCHANGED <<nFrames, clientSent, connected, setup, nSeg, curResult>>

\* The callback connected to Recognizing (kind "interim") or to Recognized
\* (kind "final"), run by Signal on the result goroutine of run w: when the
\* result has a translation for the target language a response with a new
\* uuid as SegmentID is built and conn.WriteJSON(response) is entered
Callback(c, w, kind) ==
    /\ IF connected[c] /\ curResult[c].has
       THEN /\ wsWriting' = [wsWriting EXCEPT ![c] = @ \cup
                 {WriteCall(w, Frame(kind, nSeg + 1, curResult[c].id,
                                     wsClosed[c]))}]
            /\ nSeg' = nSeg + 1
       ELSE UNCHANGED <<wsWriting, nSeg>>
    /\ UNCHANGED <<clientFrames, connected, setup, curResult>>

\* conn.WriteJSON(response) returns and with it the callback and Signal
CallbackReturns(c, w) ==
    /\ \E g \in wsWriting[c] :
          /\ g.by = w
          /\ wsWriting' = [wsWriting EXCEPT ![c] = @ \ {g}]
          /\ clientFrames' = [clientFrames EXCEPT ![c] = Append(@, g.frame)]
    /\ UNCHANGED <<connected, setup, nSeg, curResult>>

\* The result receiveResults returned to the result goroutine of run w:
\* has tells whether its Translations hold the session's target language
ResultHeld(c, w, has) ==
    /\ curResult' = [curResult EXCEPT ![c] =
          IF workers'[c][w].rpc = "raise1"
          THEN [id |-> nMsgs'[c], has |-> has] ELSE @]
    /\ UNCHANGED <<clientFrames, wsWriting, connected, setup, nSeg>>

--------------------------------------------------------------------------
(* CloseStreamingSessionHandler, one call per thread t *)

NewRpc == [pc |-> "idle", id |-> 0, session |-> NoSession, exists |-> FALSE,
           afterDelete |-> FALSE]

\* session, exists := activeSessions[req.SessionID], under the read lock;
\* not found is answered "Session is already terminated"
RpcLookup(t, id) ==
    /\ rpc[t].pc = "idle"
    /\ LET got == MapLookup(activeSessions, id) IN
       rpc' = [rpc EXCEPT ![t] =
                 [pc |-> IF got.exists THEN "wsclose" ELSE "done",
                  id |-> id, session |-> got.session, exists |-> got.exists,
                  afterDelete |-> id \in deleted]]
    /\ UNCHANGED <<activeSessions, sid, wsClosed, deleted, sessions, nUuid,
                   scDeleted, scRet>>

\* session.WSConnection.Close()
RpcWsClose(t) ==
    /\ rpc[t].pc = "wsclose"
    /\ wsClosed' = [wsClosed EXCEPT ![rpc[t].session] = TRUE]
    /\ rpc' = [rpc EXCEPT ![t].pc = "stop"]
    /\ UNCHANGED <<activeSessions, sid, deleted, sessions, nUuid, scDeleted,
                   scRet>>

\* session.Recognizer.StopContinuousRecognition()
RpcStop(t) ==
    /\ rpc[t].pc = "stop"
    /\ StopContinuousRecognition(rpc[t].session)
    /\ rpc' = [rpc EXCEPT ![t].pc = "recclose"]
    /\ UNCHANGED <<activeSessions, sid, wsClosed, deleted, sessions, nUuid,
                   scDeleted, scRet>>

\* session.Recognizer.Close()
RpcRecognizerClose(t) ==
    /\ rpc[t].pc = "recclose"
    /\ RecognizerClose(rpc[t].session)
    /\ rpc' = [rpc EXCEPT ![t].pc = "cancel"]
    /\ UNCHANGED <<activeSessions, sid, wsClosed, deleted, sessions, nUuid,
                   scDeleted, scRet, wsRest>>

\* session.CancelFunc()
RpcCancel(t) ==
    /\ rpc[t].pc = "cancel"
    /\ CancelFunc(rpc[t].session)
    /\ rpc' = [rpc EXCEPT ![t].pc = "delete"]
    /\ UNCHANGED <<activeSessions, sid, wsClosed, deleted, sessions, nUuid,
                   scDeleted, scRet>>

\* delete(activeSessions, req.SessionID), under activeSessionsMutex
RpcDelete(t) ==
    /\ rpc[t].pc = "delete"
    /\ activeSessions' = MapDelete(activeSessions, rpc[t].id)
    /\ deleted' = deleted \cup {rpc[t].id}
    /\ rpc' = [rpc EXCEPT ![t].pc = "done"]
    /\ UNCHANGED <<sid, wsClosed, sessions, nUuid, scDeleted, scRet>>

--------------------------------------------------------------------------
(* SpeechClient: the streaming-session map, every method under sessionMutex*)

\* StartStreamingSession: a new uuid is generated and the session stored
\* with LastAccess: time.Now()
StartStreamingSession ==
    /\ nUuid < MaxUuids
    /\ nUuid' = nUuid + 1
    /\ sessions' = MapStore(sessions, nUuid + 1, nUuid + 1)
    /\ scDeleted' = scDeleted \ {nUuid + 1}
    /\ lastAccess' = [lastAccess EXCEPT ![nUuid + 1] = clock]
    /\ UNCHANGED <<activeSessions, sid, wsClosed, rpc, deleted, scRet>>
    /\ UNCHANGED <<clock, configClosed, sweepSt, lastSweep>>

\* ProcessAudioChunk: the lookup; not found returns "invalid session ID",
\* found sets session.LastAccess = time.Now()
ProcessAudioChunk(id) ==
    /\ scRet' = [op |-> "process", id |-> id,
                 exists |-> MapLookup(sessions, id).exists,
                 afterDelete |-> id \in scDeleted]
    /\ lastAccess' = IF MapLookup(sessions, id).exists
                     THEN [lastAccess EXCEPT ![id] = clock]
                     ELSE lastAccess
    /\ UNCHANGED <<activeSessions, sid, wsClosed, rpc, deleted, sessions,
                   nUuid, scDeleted>>
    /\ UNCHANGED <<clock, configClosed, sweepSt, lastSweep>>

\* ProcessAudioChunk up to c.sessionMutex.Unlock(): a session that was
\* found is held by the call, which goes on without the mutex
ProcessAudioChunkLocked(id) ==
    /\ ProcessAudioChunk(id)
    /\ chunkCalls' = IF MapLookup(sessions, id).exists
                     THEN chunkCalls \cup {id} ELSE chunkCalls
    /\ UNCHANGED usedAfterClose

\* ProcessAudioChunk after the unlock:
\* speech.NewSpeechSynthesizerFromConfig(session.Config, nil) and the
\* synthesis, on the session the call holds
ProcessAudioChunkSynthesize(id) ==
    /\ id \in chunkCalls
    /\ chunkCalls' = chunkCalls \ {id}
    /\ usedAfterClose' = IF id \in configClosed
                         THEN usedAfterClose \cup {id} ELSE usedAfterClose
    /\ UNCHANGED <<activeSessions, sid, wsClosed, rpc, deleted, sessions,
                   nUuid, scDeleted, scRet>>
    /\ UNCHANGED <<clock, lastAccess, configClosed, sweepSt, lastSweep>>

InitChunk ==
    /\ chunkCalls = {}
    /\ usedAfterClose = {}

\* CloseStreamingSession: lookup, Config.Close, delete
CloseStreamingSession(id) ==
    /\ scRet' = [op |-> "close", id |-> id,
                 exists |-> MapLookup(sessions, id).exists,
                 afterDelete |-> id \in scDeleted]
    /\ IF MapLookup(sessions, id).exists
       THEN /\ sessions' = MapDelete(sessions, id)
            /\ scDeleted' = scDeleted \cup {id}
            /\ configClosed' = configClosed \cup {id}
       ELSE UNCHANGED <<sessions, scDeleted, configClosed>>
    /\ UNCHANGED <<activeSessions, sid, wsClosed, rpc, deleted, nUuid>>
    /\ UNCHANGED <<clock, lastAccess, sweepSt, lastSweep>>

\* cleanupSessions: the session id, idle for longer than maxIdleTime, is
\* closed and deleted
CleanupSession(id) ==
    /\ MapLookup(sessions, id).exists
    /\ sessions' = MapDelete(sessions, id)
    /\ scDeleted' = scDeleted \cup {id}
    /\ configClosed' = configClosed \cup {id}
    /\ UNCHANGED <<activeSessions, sid, wsClosed, rpc, deleted, nUuid, scRet>>
    /\ UNCHANGED <<clock, lastAccess, sweepSt, lastSweep>>

\* now.Sub(session.LastAccess) > maxIdleTime
IdleOrAtLimit(now, access, maxIdleTime) == now - access >= maxIdleTime

IdleTooLong(now, access, maxIdleTime) == now - access > maxIdleTime

\* cleanupSessions(maxIdleTime): now := time.Now(), read before the lock
SweepBegin(maxIdleTime) ==
    /\ sweepSt.pc = "idle"
    /\ sweepSt' = [pc |-> "lock", now |-> clock, maxIdleTime |-> maxIdleTime]
    /\ UNCHANGED <<regVars, clock, lastAccess, configClosed, lastSweep>>

\* cleanupSessions, under sessionMutex: every idle session has its Config
\* closed and is deleted
SweepRun ==
    /\ sweepSt.pc = "lock"
    /\ LET idle == {id \in Uuids :
                      /\ MapLookup(sessions, id).exists
                      /\ IdleTooLong(sweepSt.now, lastAccess[id],
                                     sweepSt.maxIdleTime)}
       IN  /\ sessions' = [id \in Uuids |->
                             IF id \in idle THEN MapDelete(sessions, id)[id]
                             ELSE sessions[id]]
           /\ scDeleted' = scDeleted \cup idle
           /\ configClosed' = configClosed \cup idle
           /\ lastSweep' = [done |-> TRUE, now |-> sweepSt.now,
                            maxIdleTime |-> sweepSt.maxIdleTime,
                            before |-> sessions, access |-> lastAccess,
                            closedBefore |-> configClosed,
                            after |-> sessions',
                            closedAfter |-> configClosed']
    /\ sweepSt' = [sweepSt EXCEPT !.pc = "idle"]
    /\ UNCHANGED <<activeSessions, sid, wsClosed, rpc, deleted, nUuid, scRet>>
    /\ UNCHANGED <<clock, lastAccess>>

\* Time passes
Tick ==
    /\ clock < MaxClock
    /\ clock' = clock + 1
    /\ UNCHANGED <<regVars, lastAccess, configClosed, sweepSt, lastSweep>>

InitSweep ==
    /\ clock = 0
    /\ lastAccess = [id \in Uuids |-> 0]
    /\ configClosed = {}
    /\ sweepSt = [pc |-> "idle", now |-> 0, maxIdleTime |-> 0]
    /\ lastSweep = [done |-> FALSE, now |-> 0, maxIdleTime |-> 0,
                    before |-> sessions, access |-> lastAccess,
                    closedBefore |-> {}, after |-> sessions,
                    closedAfter |-> {}]

InitReg(C) ==
    /\ activeSessions = [id \in SessionIds |-> NoSession]
    /\ sid = [c \in C |-> 0]
    /\ wsClosed = [c \in C |-> FALSE]
    /\ rpc = [t \in RpcThreads |-> NewRpc]
    /\ deleted = {}
    /\ sessions = [id \in Uuids |-> NoSession]
    /\ nUuid = 0
    /\ scDeleted = {}
    /\ scRet = [op |-> "none", id |-> 0, exists |-> FALSE,
                afterDelete |-> FALSE]

--------------------------------------------------------------------------
(* models: the requests of the translation feature and their validation *)

SupportedLanguages == {"ja", "en", "fr", "es", "de", "zh", "ko"}

\* An audio format is the sequence of its characters
SupportedAudioFormats ==
    {<<"w", "a", "v">>, <<"m", "p", "3">>, <<"o", "g", "g">>,
     <<"f", "l", "a", "c">>}

\* An error is the chain of its messages, outermost first; nil is empty
NoError == <<>>

\* errors.New(msg)
NewError(msg) == <<msg>>

\* strings.ToLower on one character: upper-case letters map to their
\* lower-case letter, every other character to itself
ToLowerRune(ch) ==
    CASE ch = "A" -> "a" [] ch = "C" -> "c" [] ch = "F" -> "f"
      [] ch = "G" -> "g" [] ch = "L" -> "l" [] ch = "M" -> "m"
      [] ch = "O" -> "o" [] ch = "P" -> "p" [] ch = "V" -> "v"
      [] ch = "W" -> "w" [] ch = "E" -> "e" [] ch = "N" -> "n"
      [] ch = "J" -> "j" [] ch = "S" -> "s" [] ch = "U" -> "u"
      [] OTHER -> ch

ToLowerUnchanged(s) == s

ToLower(s) == IF s = <<>> THEN <<>> ELSE [i \in 1..Len(s) |-> ToLowerRune(s[i])]

\* (r *TranslationRequest) Validate(): the error it returns
TranslationRequestValidateNoText(r) ==
    IF r.SourceLanguage = "" THEN NewError("source language is required")
    ELSE IF r.TargetLanguage = "" THEN NewError("target language is required")
    ELSE IF r.SourceLanguage \notin SupportedLanguages
         THEN NewError("unsupported source language")
    ELSE IF r.TargetLanguage \notin SupportedLanguages
         THEN NewError("unsupported target language")
    ELSE NoError

TranslationRequestValidate(r) ==
    IF r.SourceLanguage = "" THEN NewError("source language is required")
    ELSE IF r.TargetLanguage = "" THEN NewError("target language is required")
    ELSE IF r.Text = "" THEN NewError("text is required")
    ELSE IF r.SourceLanguage \notin SupportedLanguages
         THEN NewError("unsupported source language")
    ELSE IF r.TargetLanguage \notin SupportedLanguages
         THEN NewError("unsupported target language")
    ELSE NoError

\* (r *StreamingTranslationRequest) Validate(): the error it returns and
\* the request it leaves behind; AudioFormat is assigned its lower-case
\* form before the format is looked up
StreamingTranslationRequestValidate(r) ==
    IF r.SourceLanguage = ""
    THEN [err |-> NewError("source language is required"), req |-> r]
    ELSE IF r.TargetLanguage = ""
    THEN [err |-> NewError("target language is required"), req |-> r]
    ELSE IF r.AudioFormat = <<>>
    THEN [err |-> NewError("audio format is required"), req |-> r]
    ELSE IF r.SourceLanguage \notin SupportedLanguages
    THEN [err |-> NewError("unsupported source language"), req |-> r]
    ELSE IF r.TargetLanguage \notin SupportedLanguages
    THEN [err |-> NewError("unsupported target language"), req |-> r]
    ELSE LET low == [r EXCEPT !.AudioFormat = ToLower(r.AudioFormat)]
         IN  IF low.AudioFormat \notin SupportedAudioFormats
             THEN [err |-> NewError("unsupported audio format"), req |-> low]
             ELSE [err |-> NoError, req |-> low]

--------------------------------------------------------------------------
(* TranslationService over a SpeechService *)

\* fmt.Errorf("<msg>: %w", err)
Wrap(msg, err) == <<msg>> \o err

\* No result (a nil response, an empty session id) is the empty sequence
NoResult == <<>>

IsTextRequest(r) == "Text" \in DOMAIN r

IsStreamingRequest(r) == "AudioFormat" \in DOMAIN r

Returned(op, given, after, err, result, invoked) ==
    [op |-> op, given |-> given, after |-> after, err |-> err,
     result |-> result, invoked |-> invoked]

\* TranslationService.TranslateText; ok is whether the SpeechService call
\* succeeds
ServiceTranslateText(ok) ==
    /\ nOps < MaxOps
    /\ IsTextRequest(svcReq)
    /\ nOps' = nOps + 1
    /\ UNCHANGED svcReq
    /\ LET err == TranslationRequestValidate(svcReq)
       IN  IF err # NoError
           THEN /\ svcRet' = Returned("TranslateText", svcReq, svcReq,
                                      Wrap("invalid request", err),
                                      NoResult, FALSE)
                /\ UNCHANGED speechCalls
           ELSE /\ speechCalls' = speechCalls + 1
                /\ svcRet' =
                     IF ok
                     THEN Returned("TranslateText", svcReq, svcReq, NoError,
                                   <<[SourceLanguage |-> svcReq.SourceLanguage,
                                      TargetLanguage |-> svcReq.TargetLanguage,
                                      OriginalText |-> svcReq.Text]>>,
                                   TRUE)
                     ELSE Returned("TranslateText", svcReq, svcReq,
                                   Wrap("translation failed", 
                                        NewError("speech")),
                                   NoResult, TRUE)

\* TranslationService.StartStreamingSession; ok is whether the
\* SpeechService call succeeds
ServiceStartStreamingSession(ok) ==
    /\ nOps < MaxOps
    /\ IsStreamingRequest(svcReq)
    /\ nOps' = nOps + 1
    /\ LET v == StreamingTranslationRequestValidate(svcReq)
       IN  /\ svcReq' = v.req
           /\ IF v.err # NoError
              THEN /\ svcRet' = Returned("StartStreamingSession", svcReq,
                                         v.req, Wrap("invalid request", v.err),
                                         NoResult, FALSE)
                   /\ UNCHANGED speechCalls
              ELSE /\ speechCalls' = speechCalls + 1
                   /\ svcRet' =
                        IF ok
                        THEN Returned("StartStreamingSession", svcReq, v.req,
                                      NoError,
                                      <<[AudioFormat |-> v.req.AudioFormat]>>,
                                      TRUE)
                        ELSE Returned("StartStreamingSession", svcReq, v.req,
                                      Wrap("failed to start streaming session",
                                           
                                        NewError("speech")),
                                      NoResult, TRUE)

\* A caller validates the streaming request it holds
CallerValidate ==
    /\ nOps < MaxOps
    /\ IsStreamingRequest(svcReq)
    /\ nOps' = nOps + 1
    /\ LET v == StreamingTranslationRequestValidate(svcReq)
       IN  /\ svcReq' = v.req
           /\ svcRet' = Returned("Validate", svcReq, v.req, v.err, NoResult,
                                 FALSE)
    /\ UNCHANGED speechCalls

\* The requests a caller may build
LanguageInputs == {"", "en", "ja", "xx"}

TextInputs == {"", "hello"}

AudioFormatInputs ==
    {<<>>, <<"w", "a", "v">>, <<"W", "A", "V">>, <<"M", "p", "3">>,
     <<"m", "p", "3">>, <<"a", "a", "c">>}

TextRequests ==
    [SourceLanguage : LanguageInputs, TargetLanguage : LanguageInputs,
     Text : TextInputs]

StreamingRequests ==
    [SourceLanguage : LanguageInputs, TargetLanguage : LanguageInputs,
     AudioFormat : AudioFormatInputs]

\* The caller builds another request
CallerNewRequest(r) ==
    /\ nOps < MaxOps
    /\ r # svcReq
    /\ svcReq' = r
    /\ UNCHANGED <<svcRet, speechCalls, nOps>>

Requests == TextRequests \cup StreamingRequests

IdleRequest ==
    [SourceLanguage |-> "en", TargetLanguage |-> "ja", Text |-> "hello"]

InitSvc(R) ==
    /\ svcReq \in R
    /\ svcRet = Returned("none", svcReq, svcReq, NoError, NoResult, FALSE)
    /\ speechCalls = 0
    /\ nOps = 0

--------------------------------------------------------------------------
(* SpecStream: the push stream under a generic writer, reader and closer   *)

OneConn == {1}

InitS ==
    InitStream(OneConn) /\ InitHandler(OneConn, "none") /\ InitRec(OneConn)
    /\ InitReg(OneConn) /\ InitWs(OneConn) /\ InitSvc({IdleRequest}) /\ InitSweep
    /\ InitWire(OneConn)
    /\ InitLang({NoNormalize})
    /\ InitSignal
    /\ InitChunk

NextS ==
    \/ \E c \in OneConn : CallerWrite(c) /\ UNCHANGED <<svcVars, langVars, sigVars, chunkVars, outVars, inVars, sweepVars, handlerVars, recVars, regVars, wsVars>>
    \/ \E c \in OneConn : CallerWriteSend(c) /\ UNCHANGED <<svcVars, langVars, sigVars, chunkVars, outVars, inVars, sweepVars, handlerVars, recVars, regVars, wsVars>>
    \/ \E c \in OneConn, p \in CallerPayloads :
          CallerReuse(c, p) /\ UNCHANGED <<svcVars, langVars, sigVars, chunkVars, outVars, inVars, sweepVars, handlerVars, recVars, regVars, wsVars>>
    \/ \E c \in OneConn : ReaderRead(c) /\ UNCHANGED <<svcVars, langVars, sigVars, chunkVars, outVars, inVars, sweepVars, handlerVars, recVars, regVars, wsVars>>
    \/ \E c \in OneConn : ReaderSelect(c) /\ UNCHANGED <<svcVars, langVars, sigVars, chunkVars, outVars, inVars, sweepVars, handlerVars, recVars, regVars, wsVars>>
    \/ \E c \in OneConn : CloseFlag(c) /\ UNCHANGED <<svcVars, langVars, sigVars, chunkVars, outVars, inVars, sweepVars, handlerVars, recVars, regVars, wsVars>>
    \/ \E c \in OneConn : CloseChan(c) /\ UNCHANGED <<svcVars, langVars, sigVars, chunkVars, outVars, inVars, sweepVars, handlerVars, recVars, regVars, wsVars>>

SpecStream == InitS /\ [][NextS]_vars

--------------------------------------------------------------------------
(* Claims about the push stream, checked under SpecStream *)

\* C3 (as claimed): once the Writes are done and Close has returned, a Read
\* returns end-of-stream only after the reader has obtained every chunk
\* that was written; no EOF while a written chunk is still queued.
C3_EOFOnlyAfterAllChunks ==
    \A c \in OneConn :
        (nCloses[c] >= 1 /\ wpc[c] = "idle" /\ rdret[c].err = "EOF")
            => (Len(deq[c]) = Len(enq[c]) /\ Len(buffer[c]) = 0)

\* The chunks in the queue hold the bytes their Write was given
QueuedChunksIntact ==
    \A c \in OneConn : \A i \in 1..Len(buffer[c]) :
        /\ Len(deq[c]) + i <= Len(enq[c])
        /\ heap[buffer[c][i]] = enq[c][Len(deq[c]) + i]

\* A step that is a call of Write on stream c
IsWriteCall(c) == nWrites'[c] = nWrites[c] + 1

WriteContract ==
    \A c \in OneConn :
        /\ (IsWriteCall(c) /\ nCloses[c] >= 1)
              => /\ wret'[c] = "err"
                 /\ wpc'[c] = "idle"
                 /\ buffer'[c] = buffer[c]
        /\ (IsWriteCall(c) /\ wret'[c] # "err")
              => /\ wref'[c] # callerBuf[c]
                 /\ heap'[wref'[c]] = heap[callerBuf[c]]
        /\ nCloses[c] >= 1 => enq'[c] = enq[c]

\* C5: after Close has returned every Write returns the error, enqueues
\* nothing and leaves the queue as it was; before Close a Write enqueues a
\* private copy, which later changes of the caller's slice do not change.
C5_WriteAfterCloseAndCopy == []QueuedChunksIntact /\ [][WriteContract]_vars

\* C5 witness: Close has returned, a Write was refused, a chunk is still
\* queued and the caller's buffer has since been overwritten.
C5_Witness ==
    \E c \in OneConn :
        /\ nCloses[c] >= 1
        /\ wret[c] = "err"
        /\ Len(buffer[c]) > 0
        /\ heap[callerBuf[c]] # heap[buffer[c][1]]

--------------------------------------------------------------------------
(* SpecFill: a client that sends audio faster than the stream is read.     *)
(* Every frame has one byte, so that the queue can fill to its capacity.   *)

InitF ==
    InitStream(OneConn) /\ InitHandler(OneConn, "loop") /\ InitRec(OneConn)
    /\ InitReg(OneConn) /\ InitWs(OneConn) /\ InitSvc({IdleRequest}) /\ InitSweep
    /\ InitWire(OneConn)
    /\ InitLang({NoNormalize})
    /\ InitSignal
    /\ InitChunk

NextF ==
    \/ \E c \in OneConn :
          /\ nFrames[c] < FillFrames
          /\ HandlerBinaryFrame(c, 1)
          /\ UNCHANGED <<svcVars, langVars, sigVars, chunkVars, outVars, inVars, sweepVars, recVars, regVars, wsVars>>
    \/ \E c \in OneConn : HandlerWriteSend(c) /\ UNCHANGED <<svcVars, langVars, sigVars, chunkVars, outVars, inVars, sweepVars, recVars, regVars, wsVars>>
    \/ \E c \in OneConn : ReaderRead(c) /\ UNCHANGED <<svcVars, langVars, sigVars, chunkVars, outVars, inVars, sweepVars, handlerVars, recVars, regVars, wsVars>>
    \/ \E c \in OneConn : ReaderSelect(c) /\ UNCHANGED <<svcVars, langVars, sigVars, chunkVars, outVars, inVars, sweepVars, handlerVars, recVars, regVars, wsVars>>

SpecFill == InitF /\ [][NextF]_vars

\* The queue is the enqueued chunks minus the dequeued ones, in order
QueueIsFifo ==
    \A c \in OneConn :
        /\ Len(buffer[c]) = Len(enq[c]) - Len(deq[c])
        /\ \A i \in 1..Len(buffer[c]) :
              heap[buffer[c][i]] = enq[c][Len(deq[c]) + i]
        /\ \A i \in 1..Len(deq[c]) : deq[c][i] = enq[c][i]

BoundedQueue ==
    \A c \in OneConn : Len(buffer[c]) <= BufferCap /\ QueueIsFifo

\* While a Write waits on a full queue, the writer stays in that Write, the
\* handler takes no further client frame, and the queue changes only by a
\* Read taking its head
FullQueueBlocksWriter ==
    \A c \in OneConn :
        (wpc[c] = "sending" /\ Len(buffer[c]) = BufferCap)
            => /\ wpc'[c] = "sending"
               /\ nFrames'[c] = nFrames[c]
               /\ enq'[c] = enq[c]
               /\ buffer'[c] \in {buffer[c], Tail(buffer[c])}

\* C6: the Audio Ingress Buffer never holds more than 100 chunks; a Write
\* issued while 100 chunks are queued does not complete, and its read loop
\* takes no further frame, until a Read dequeues; no chunk is dropped or
\* overwritten.
C6_Backpressure == []BoundedQueue /\ [][FullQueueBlocksWriter]_vars

\* C6 witness: 100 chunks are queued and the handler waits inside Write
\* with the 101st.
C6_Witness ==
    \E c \in OneConn :
        /\ Len(buffer[c]) = BufferCap
        /\ wpc[c] = "sending"
        /\ nFrames[c] = BufferCap + 1

--------------------------------------------------------------------------
(* The steps of the worker goroutines and of their result goroutines *)

Runs(c) == 1..Len(workers[c])

WorkerNext(C) ==
    \/ \E c \in C : \E w \in Runs(c) :
          WorkerSessionStarted(c, w) /\ UNCHANGED <<svcVars, langVars, sigVars, chunkVars, outVars, inVars, sweepVars, streamVars, handlerVars, regVars, wsVars>>
    \/ \E c \in C : \E w \in Runs(c) : \E ok \in BOOLEAN :
          WorkerConnect(c, w, ok) /\ UNCHANGED <<svcVars, langVars, sigVars, chunkVars, outVars, inVars, sweepVars, streamVars, handlerVars, regVars, wsVars>>
    \/ \E c \in C : \E w \in Runs(c) :
          WorkerSelect(c, w) /\ UNCHANGED <<svcVars, langVars, sigVars, chunkVars, outVars, inVars, sweepVars, streamVars, handlerVars, regVars, wsVars>>
    \/ \E c \in C : \E w \in Runs(c) :
          WorkerRead(c, w) /\ UNCHANGED <<svcVars, langVars, sigVars, chunkVars, outVars, inVars, sweepVars, handlerVars, regVars, wsVars>>
    \/ \E c \in C : \E w \in Runs(c) :
          WorkerReadSelect(c, w) /\ UNCHANGED <<svcVars, langVars, sigVars, chunkVars, outVars, inVars, sweepVars, handlerVars, regVars, wsVars>>
    \/ \E c \in C : \E w \in Runs(c) : \E ok \in BOOLEAN :
          WorkerSend(c, w, ok) /\ UNCHANGED <<svcVars, langVars, sigVars, chunkVars, inVars, sweepVars, streamVars, handlerVars, regVars, wsVars>>
    \/ \E c \in C : \E w \in Runs(c) :
          WorkerCloseConn(c, w) /\ UNCHANGED <<svcVars, langVars, sigVars, chunkVars, outVars, inVars, sweepVars, streamVars, handlerVars, regVars, wsVars>>
    \/ \E c \in C : \E w \in Runs(c) : \E kind \in ReceiveKinds :
          /\ nMsgs[c] < MaxMsgs \/ kind = "err"
          /\ ResultReceive(c, w, kind)
          /\ UNCHANGED <<svcVars, langVars, sigVars, chunkVars, outVars, inVars, sweepVars, streamVars, handlerVars, regVars, wsVars>>
    \/ \E c \in C : \E w \in Runs(c) :
          ResultRaiseRecognizing(c, w) /\ UNCHANGED <<svcVars, langVars, sigVars, chunkVars, outVars, inVars, sweepVars, streamVars, handlerVars, regVars, wsVars>>
    \/ \E c \in C : \E w \in Runs(c) :
          ResultRaiseRecognized(c, w) /\ UNCHANGED <<svcVars, langVars, sigVars, chunkVars, outVars, inVars, sweepVars, streamVars, handlerVars, regVars, wsVars>>

--------------------------------------------------------------------------
(* SpecRec: one recognizer fed by a push stream, under any use of its API: *)
(* Start, Stop, cancellation of the context; the client's binary frames    *)
(* (one byte each) arrive through the handler's read loop.                 *)

InitR ==
    InitStream(OneConn) /\ InitHandler(OneConn, "loop") /\ InitRec(OneConn)
    /\ InitReg(OneConn) /\ InitWs(OneConn) /\ InitSvc({IdleRequest}) /\ InitSweep
    /\ InitWire(OneConn)
    /\ InitLang({NoNormalize})
    /\ InitSignal
    /\ InitChunk

NextR ==
    \/ \E c \in OneConn :
          /\ nFrames[c] < RecFrames
          /\ HandlerBinaryFrame(c, 1)
          /\ UNCHANGED <<svcVars, langVars, sigVars, chunkVars, outVars, inVars, sweepVars, recVars, regVars, wsVars>>
    \/ \E c \in OneConn : HandlerWriteSend(c) /\ UNCHANGED <<svcVars, langVars, sigVars, chunkVars, outVars, inVars, sweepVars, recVars, regVars, wsVars>>
    \/ \E c \in OneConn :
          /\ Len(workers[c]) < MaxStarts \/ continuousRunning[c]
          /\ StartContinuousRecognition(c)
          /\ UNCHANGED <<svcVars, langVars, sigVars, chunkVars, outVars, inVars, sweepVars, streamVars, handlerVars, regVars, wsVars>>
    \/ \E c \in OneConn :
          StopContinuousRecognition(c) /\ UNCHANGED <<svcVars, langVars, sigVars, chunkVars, outVars, inVars, sweepVars, streamVars, handlerVars, regVars, wsVars>>
    \/ \E c \in OneConn :
          CancelContext(c) /\ UNCHANGED <<svcVars, langVars, sigVars, chunkVars, outVars, inVars, sweepVars, streamVars, handlerVars, regVars, wsVars>>
    \/ \E c \in OneConn :
          /\ ~recClosed[c]
          /\ RecognizerClose(c)
          /\ UNCHANGED <<svcVars, langVars, sigVars, chunkVars, outVars, inVars, sweepVars, streamVars, handlerVars, regVars, wsRest>>
    \/ WorkerNext(OneConn)

SpecRec == InitR /\ [][NextR]_vars

--------------------------------------------------------------------------
(* Claims about the recognizer's runs, checked under SpecRec *)

Terminal == {"sessionStopped", "canceled"}

\* Run w is over: its worker has returned and its result goroutine too
RunEnded(c, w) ==
    workers[c][w].pc = "done" /\ workers[c][w].rpc \in {"none", "done"}

\* C1 (as claimed): the events of every run start with exactly one
\* sessionStarted and end with exactly one sessionStopped or canceled:
\* nothing is signalled after the terminal event, and a run that is over has
\* signalled one.
C1_EventOrder ==
    \A c \in OneConn : \A w \in Runs(c) :
        LET e == events[c][w] IN
        /\ Len(e) > 0 => e[1] = "sessionStarted"
        /\ \A i \in 2..Len(e) : e[i] # "sessionStarted"
        /\ \A i \in 1..Len(e) : e[i] \in Terminal => i = Len(e)
        /\ RunEnded(c, w) => (Len(e) > 0 /\ e[Len(e)] \in Terminal)

\* C2 (as claimed): once a run has signalled canceled it signals no
\* recognized event.
C2_NoRecognizedAfterCanceled ==
    \A c \in OneConn : \A w \in Runs(c) :
        \A i, j \in 1..Len(events[c][w]) :
            (i < j /\ events[c][w][i] = "canceled")
                => events[c][w][j] # "recognized"

\* The workers that are inside audioSource.Read on the stream of c
ActiveReaders(c) ==
    {w \in Runs(c) : workers[c][w].pc \in {"read", "readsel"}}

\* C7 (as claimed): at every moment at most one goroutine reads from a
\* session's Audio Ingress Buffer, whatever the sequence of Start and Stop
\* calls (the handler's read loop is its only writer).
C7_SingleReader ==
    \A c \in OneConn : Cardinality(ActiveReaders(c)) <= 1

--------------------------------------------------------------------------
(* SpecPump: one session streaming audio: the handler's read loop writes   *)
(* the client's binary frames to the push stream, the one worker started   *)
(* for the session pumps them to the provider.                             *)

FrameLens == {0, ReadSlot, ReadSlot + 1}

InitP ==
    InitStream(OneConn) /\ InitHandler(OneConn, "loop") /\ InitRec(OneConn)
    /\ InitReg(OneConn) /\ InitWs(OneConn) /\ InitSvc({IdleRequest}) /\ InitSweep
    /\ InitWire(OneConn)
    /\ InitLang({NoNormalize})
    /\ InitSignal
    /\ InitChunk

NextP ==
    \/ \E c \in OneConn, len \in FrameLens :
          /\ nFrames[c] < MaxFrames
          /\ HandlerBinaryFrame(c, len)
          /\ UNCHANGED <<svcVars, langVars, sigVars, chunkVars, outVars, inVars, sweepVars, recVars, regVars, wsVars>>
    \/ \E c \in OneConn : HandlerWriteSend(c) /\ UNCHANGED <<svcVars, langVars, sigVars, chunkVars, outVars, inVars, sweepVars, recVars, regVars, wsVars>>
    \/ \E c \in OneConn :
          /\ Len(workers[c]) = 0
          /\ StartContinuousRecognition(c)
          /\ UNCHANGED <<svcVars, langVars, sigVars, chunkVars, outVars, inVars, sweepVars, streamVars, handlerVars, regVars, wsVars>>
    \/ WorkerNext(OneConn)

SpecPump == InitP /\ [][NextP]_vars

--------------------------------------------------------------------------
(* Claims about the forwarded audio, checked under SpecPump *)

\* A byte string as its runs: the empty runs dropped, two runs that continue
\* each other merged
RECURSIVE Canon(_)
Canon(runs) ==
    IF runs = <<>> THEN <<>>
    ELSE LET r == Head(runs)
             rest == Canon(Tail(runs))
         IN  IF r.len = 0 THEN rest
             ELSE IF rest # <<>> /\ rest[1].tag = r.tag
                                 /\ rest[1].off = r.off + r.len
                  THEN <<[r EXCEPT !.len = r.len + rest[1].len]>> \o Tail(rest)
                  ELSE <<r>> \o rest

\* Whether the byte string a (canonical) is a prefix of b (canonical)
RECURSIVE IsBytePrefix(_, _)
IsBytePrefix(a, b) ==
    IF a = <<>> THEN TRUE
    ELSE IF b = <<>> THEN FALSE
    ELSE IF a[1].tag # b[1].tag \/ a[1].off # b[1].off THEN FALSE
    ELSE IF a[1].len = b[1].len THEN IsBytePrefix(Tail(a), Tail(b))
    ELSE a[1].len < b[1].len /\ Len(a) = 1

UpstreamBytes(c) ==
    Canon([i \in 1..Len(upstream[c]) |-> upstream[c][i].data])

ClientBytes(c) == Canon(clientSent[c])

\* Nothing is in flight: the handler is outside Write, the queue is empty
\* and the worker is between two passes of its loop
PumpIdle(c) ==
    /\ wpc[c] = "idle"
    /\ Len(buffer[c]) = 0
    /\ Len(workers[c]) = 1
    /\ workers[c][1].pc = "loop"

\* C4 (as claimed): the payloads of the binary frames sent upstream,
\* concatenated, are the bytes of the client's binary frames, in order: a
\* prefix of them at every moment, and all of them once nothing is in
\* flight.
C4_BytesForwardedUnchanged ==
    \A c \in OneConn :
        /\ IsBytePrefix(UpstreamBytes(c), ClientBytes(c))
        /\ PumpIdle(c) => UpstreamBytes(c) = ClientBytes(c)

--------------------------------------------------------------------------
(* SpecBridge: one client connection from its set-up frame to its teardown *)
(* by the handler or by the close RPC, with the recognizer's worker and    *)
(* result goroutine running                                                *)

BridgeIds == {1}

InitB ==
    InitStream(OneConn) /\ InitHandler(OneConn, "idle") /\ InitRec(OneConn)
    /\ InitReg(OneConn) /\ InitWs(OneConn) /\ InitSvc({IdleRequest}) /\ InitSweep
    /\ InitWire(OneConn)
    /\ InitLang({NoNormalize})
    /\ InitSignal
    /\ InitChunk

NextB ==
    \/ \E c \in OneConn, id \in BridgeIds, kind \in SetupKinds, ok \in BOOLEAN :
          HandlerReadSetup(c, id, kind, ok) /\ UNCHANGED <<svcVars, langVars, sigVars, chunkVars, outVars, inVars, sweepVars, streamVars, recVars>>
    \/ \E c \in OneConn, id \in BridgeIds, keyLen \in KeyLens :
          HandlerKeyPanics(c, id, keyLen)
          /\ UNCHANGED <<svcVars, langVars, sigVars, chunkVars, outVars, inVars, sweepVars, streamVars, recVars, wsVars>>
    \/ \E c \in OneConn :
          HandlerRegister(c) /\ UNCHANGED <<svcVars, langVars, sigVars, chunkVars, outVars, inVars, sweepVars, streamVars, recVars, wsVars>>
    \/ \E c \in OneConn :
          HandlerReady(c) /\ UNCHANGED <<svcVars, langVars, sigVars, chunkVars, outVars, inVars, sweepVars, streamVars, recVars, regVars>>
    \/ \E c \in OneConn : HandlerStart(c) /\ UNCHANGED <<svcVars, langVars, sigVars, chunkVars, outVars, inVars, sweepVars, streamVars, wsVars>>
    \/ \E c \in OneConn :
          /\ nFrames[c] < RecFrames
          /\ HandlerBinaryFrame(c, 1)
          /\ UNCHANGED <<svcVars, langVars, sigVars, chunkVars, outVars, inVars, sweepVars, recVars, regVars, wsVars>>
    \/ \E c \in OneConn :
          HandlerWriteSend(c) /\ UNCHANGED <<svcVars, langVars, sigVars, chunkVars, outVars, inVars, sweepVars, recVars, regVars, wsVars>>
    \/ \E c \in OneConn :
          /\ Cardinality({i \in 1..Len(clientFrames[c]) :
                 clientFrames[c][i].kind = "init_response"}) < MaxInits
          /\ HandlerInit(c)
          /\ UNCHANGED <<svcVars, langVars, sigVars, chunkVars, outVars, inVars, sweepVars, streamVars, recVars, regVars>>
    \/ \E c \in OneConn :
          HandlerInitDone(c) /\ UNCHANGED <<svcVars, langVars, sigVars, chunkVars, outVars, inVars, sweepVars, streamVars, recVars, regVars>>
    \/ \E c \in OneConn :
          HandlerReadError(c) /\ UNCHANGED <<svcVars, langVars, sigVars, chunkVars, outVars, inVars, sweepVars, streamVars, wsVars>>
    \/ \E c \in OneConn : HandlerRecognizerClose(c) /\ UNCHANGED <<svcVars, langVars, sigVars, chunkVars, outVars, inVars, sweepVars, streamVars>>
    \/ \E c \in OneConn : HandlerEnd(c) /\ UNCHANGED <<svcVars, langVars, sigVars, chunkVars, outVars, inVars, sweepVars, streamVars, wsVars>>
    \/ \E c \in OneConn :
          HandlerCleanupCancel(c) /\ UNCHANGED <<svcVars, langVars, sigVars, chunkVars, outVars, inVars, sweepVars, streamVars, wsVars>>
    \/ \E c \in OneConn :
          HandlerCleanupDelete(c) /\ UNCHANGED <<svcVars, langVars, sigVars, chunkVars, outVars, inVars, sweepVars, streamVars, recVars, wsVars>>
    \/ \E c \in OneConn :
          HandlerCleanupClose(c) /\ UNCHANGED <<svcVars, langVars, sigVars, chunkVars, outVars, inVars, sweepVars, streamVars, recVars, wsVars>>
    \/ \E c \in OneConn : \E w \in Runs(c) :
          WorkerSessionStarted(c, w)
          /\ UNCHANGED <<svcVars, langVars, sigVars, chunkVars, outVars, inVars, sweepVars, streamVars, handlerVars, regVars, wsVars>>
    \/ \E c \in OneConn : \E w \in Runs(c) : \E ok \in BOOLEAN :
          WorkerConnect(c, w, ok)
          /\ UNCHANGED <<svcVars, langVars, sigVars, chunkVars, outVars, inVars, sweepVars, streamVars, handlerVars, regVars, wsVars>>
    \/ \E c \in OneConn : \E w \in Runs(c) :
          WorkerSelect(c, w)
          /\ UNCHANGED <<svcVars, langVars, sigVars, chunkVars, outVars, inVars, sweepVars, streamVars, handlerVars, regVars, wsVars>>
    \/ \E c \in OneConn : \E w \in Runs(c) :
          WorkerRead(c, w) /\ UNCHANGED <<svcVars, langVars, sigVars, chunkVars, outVars, inVars, sweepVars, handlerVars, regVars, wsVars>>
    \/ \E c \in OneConn : \E w \in Runs(c) :
          WorkerReadSelect(c, w) /\ UNCHANGED <<svcVars, langVars, sigVars, chunkVars, outVars, inVars, sweepVars, handlerVars, regVars, wsVars>>
    \/ \E c \in OneConn : \E w \in Runs(c) : \E ok \in BOOLEAN :
          /\ ok => LanguagesAccepted(setup[c])
          /\ WorkerSend(c, w, ok)
          /\ UNCHANGED <<svcVars, langVars, sigVars, chunkVars, inVars, sweepVars, streamVars, handlerVars, regVars, wsVars>>
    \/ \E c \in OneConn : \E w \in Runs(c) :
          WorkerCloseConn(c, w)
          /\ UNCHANGED <<svcVars, langVars, sigVars, chunkVars, outVars, inVars, sweepVars, streamVars, handlerVars, regVars, wsVars>>
    \/ \E c \in OneConn : \E w \in Runs(c) :
       \E kind \in ReceiveKinds, has \in BOOLEAN :
          /\ nMsgs[c] < BridgeMsgs \/ kind = "err"
          /\ ~Writing(c, w)
          /\ ResultReceive(c, w, kind)
          /\ ResultHeld(c, w, has)
          /\ UNCHANGED <<svcVars, langVars, sigVars, chunkVars, outVars, inVars, sweepVars, streamVars, handlerVars, regVars>>
    \/ \E c \in OneConn : \E w \in Runs(c) :
          /\ ~Writing(c, w)
          /\ ResultRaiseRecognizing(c, w)
          /\ Callback(c, w, "interim")
          /\ UNCHANGED <<svcVars, langVars, sigVars, chunkVars, outVars, inVars, sweepVars, streamVars, handlerVars, regVars>>
    \/ \E c \in OneConn : \E w \in Runs(c) :
          /\ ~Writing(c, w)
          /\ ResultRaiseRecognized(c, w)
          /\ Callback(c, w, "final")
          /\ UNCHANGED <<svcVars, langVars, sigVars, chunkVars, outVars, inVars, sweepVars, streamVars, handlerVars, regVars>>
    \/ \E c \in OneConn : \E w \in Runs(c) :
          CallbackReturns(c, w)
          /\ UNCHANGED <<svcVars, langVars, sigVars, chunkVars, outVars, inVars, sweepVars, streamVars, handlerVars, recVars, regVars>>
    \/ \E t \in RpcThreads, id \in BridgeIds :
          RpcLookup(t, id)
          /\ UNCHANGED <<svcVars, langVars, sigVars, chunkVars, outVars, inVars, sweepVars, streamVars, handlerVars, recVars, wsVars>>
    \/ \E t \in RpcThreads :
          RpcWsClose(t)
          /\ UNCHANGED <<svcVars, langVars, sigVars, chunkVars, outVars, inVars, sweepVars, streamVars, handlerVars, recVars, wsVars>>
    \/ \E t \in RpcThreads :
          RpcStop(t) /\ UNCHANGED <<svcVars, langVars, sigVars, chunkVars, outVars, inVars, sweepVars, streamVars, handlerVars, wsVars>>
    \/ \E t \in RpcThreads :
          RpcRecognizerClose(t) /\ UNCHANGED <<svcVars, langVars, sigVars, chunkVars, outVars, inVars, sweepVars, streamVars, handlerVars>>
    \/ \E t \in RpcThreads :
          RpcCancel(t) /\ UNCHANGED <<svcVars, langVars, sigVars, chunkVars, outVars, inVars, sweepVars, streamVars, handlerVars, wsVars>>
    \/ \E t \in RpcThreads :
          RpcDelete(t)
          /\ UNCHANGED <<svcVars, langVars, sigVars, chunkVars, outVars, inVars, sweepVars, streamVars, handlerVars, recVars, wsVars>>

SpecBridge == InitB /\ [][NextB]_vars

--------------------------------------------------------------------------
(* Claims about the client bridge, checked under SpecBridge *)

\* The entry of session c has been deleted from the registry
EntryRemoved(c) == sid[c] \in deleted

\* Run w of c holds an open connection to the provider
UpstreamOpen(c, w) == workers[c][w].upc = "open"

\* C11 (as claimed): in no state is the registry entry of a session gone
\* while an upstream connection of its recognizer is still open.
C11_UpstreamClosedBeforeRemoval ==
    \A c \in OneConn :
        EntryRemoved(c) => \A w \in Runs(c) : ~UpstreamOpen(c, w)

\* The teardown steps of session c, as steps of the state machine
ClosesRecognizer(c) == ~recClosed[c] /\ recClosed'[c]

RemovesEntry(c) == sid[c] \notin deleted /\ sid[c] \in deleted'

ClosesTransport(c) == hpc[c] # "idle" /\ ~wsClosed[c] /\ wsClosed'[c]

\* C12 (as claimed): on every teardown path the steps come in the order
\* stop continuous recognition, close the recognizer, remove the session
\* from the registry, close the client transport: each step is taken only
\* when the steps before it have been taken.
C12_TeardownOrder ==
    [][\A c \in OneConn :
          /\ ClosesRecognizer(c) => ~continuousRunning[c]
          /\ RemovesEntry(c) => (~continuousRunning[c] /\ recClosed[c])
          /\ ClosesTransport(c) => (recClosed[c] /\ EntryRemoved(c))]_vars

\* Session c was set up: its ready frame was written
WasRegistered(c) ==
    \E i \in 1..Len(clientFrames[c]) : clientFrames[c][i].kind = "ready"

\* The close RPC calls that found session c and tear it down
RpcTeardowns(c) ==
    {t \in RpcThreads : rpc[t].pc # "idle" /\ rpc[t].exists
                        /\ rpc[t].session = c}

\* Every teardown of session c that was begun has finished, the handler's
\* own included
TeardownsFinished(c) ==
    /\ WasRegistered(c)
    /\ hpc[c] = "done"
    /\ \A t \in RpcTeardowns(c) : rpc[t].pc = "done"

\* The state teardown leaves session c in
TornDown(c) ==
    /\ ~MapLookup(activeSessions, sid[c]).exists
    /\ wsClosed[c]
    /\ ~continuousRunning[c]
    /\ ctxDone[c]

\* C13: teardown is idempotent.  However the handler's teardown (read error
\* or end message) and the close RPC's follow or race each other, no stop
\* channel is closed twice (no panic), and once they have finished the id
\* is absent from the registry, the client transport closed, recognition
\* stopped and the context cancelled, as after a single teardown.
C13_TeardownIdempotent ==
    \A c \in OneConn :
        /\ apiRet[c] # "panic"
        /\ TeardownsFinished(c) => TornDown(c)

\* The handler and a close RPC have both torn the same session down
C13_Witness ==
    \E c \in OneConn :
        /\ TeardownsFinished(c)
        /\ RpcTeardowns(c) # {}
        /\ recClosed[c]
        /\ TornDown(c)

\* A run of session c's recognizer has signalled canceled
CanceledSignalled(c) ==
    \E w \in Runs(c) : \E i \in 1..Len(events[c][w]) :
        events[c][w][i] = "canceled"

\* The server has nothing left to do for session c unless the client sends
\* something or goes away: the handler waits in conn.ReadMessage, every
\* worker and result goroutine has returned, no write and no close RPC is
\* in progress
ServerIdle(c) ==
    /\ hpc[c] = "loop"
    /\ wpc[c] = "idle"
    /\ wsWriting[c] = {}
    /\ \A w \in Runs(c) : RunEnded(c, w)
    /\ \A t \in RpcThreads : rpc[t].pc \in {"idle", "done"}

ErrorFrameSent(c) ==
    \E i \in 1..Len(clientFrames[c]) : clientFrames[c][i].kind = "error"

\* C14 (as claimed): after the recognizer of a registered session has
\* signalled canceled the server sends the client an error frame, removes
\* the session from the registry and closes the client transport; so when
\* the server has nothing left to do, all three have happened.
C14_CanceledTearsDown ==
    \A c \in OneConn :
        (CanceledSignalled(c) /\ ServerIdle(c))
            => (ErrorFrameSent(c) /\ EntryRemoved(c) /\ wsClosed[c])

\* The set-up frames that fail validation
InvalidSetups == SetupKinds \ {"valid"}

FramesOfKind(c, kind) ==
    {i \in 1..Len(clientFrames[c]) : clientFrames[c][i].kind = kind}

\* C15 (as claimed): for a set-up frame that fails validation the handler
\* registers no session, sends no ready frame and starts no recognizer,
\* and when it has returned it has sent exactly one error frame and closed
\* the connection.
C15_InvalidSetupRejected ==
    \A c \in OneConn :
        setup[c] \in InvalidSetups =>
            /\ ~MapLookup(activeSessions, sid[c]).exists
            /\ FramesOfKind(c, "ready") = {}
            /\ Len(workers[c]) = 0
            /\ hpc[c] = "done" =>
                  (Cardinality(FramesOfKind(c, "error")) = 1 /\ wsClosed[c])

ResultKinds == {"interim", "final"}

\* The frames written so far are a ready frame followed by result frames
\* and at most one error frame
FrameGrammar(c) ==
    LET f == clientFrames[c] IN
    /\ Len(f) > 0 => f[1].kind = "ready"
    /\ \A i \in 2..Len(f) : f[i].kind \in ResultKinds \cup {"error"}
    /\ Cardinality(FramesOfKind(c, "error")) <= 1

\* No write was made or begun on a transport that had been closed
NoLateWrite(c) ==
    /\ \A i \in 1..Len(clientFrames[c]) : ~clientFrames[c][i].late
    /\ \A g \in wsWriting[c] : ~g.frame.late

\* C16 (as claimed): the frames written to a client are exactly one ready
\* frame first, then result frames and at most one error frame, and no
\* write is made or attempted on the client transport after its close.
C16_ClientFrameSequence ==
    \A c \in OneConn : FrameGrammar(c) /\ NoLateWrite(c)

\* C17 (as claimed): at no time are two goroutines inside a write on the
\* same client WebSocket: the callbacks' writes (result goroutine) and the
\* read loop's writes (handler goroutine) exclude each other.
C17_SerializedClientWrites ==
    \A c \in OneConn : Cardinality(wsWriting[c]) <= 1

\* C18 (as claimed): the frames that report one segment (one result of the
\* provider) carry one segmentId, and the interim frames of a segment
\* precede its final frame.
C18_SegmentIdsAgree ==
    \A c \in OneConn :
        LET f == clientFrames[c] IN
        \A i, j \in 1..Len(f) :
            (f[i].kind = "interim" /\ f[j].kind = "final"
             /\ f[i].res = f[j].res)
                => (f[i].seg = f[j].seg /\ i < j)

--------------------------------------------------------------------------
(* SpecReg: connections sharing session ids, the close RPC and the         *)
(* SpeechClient session map                                                *)

InitG ==
    InitStream(Conns) /\ InitHandler(Conns, "idle") /\ InitRec(Conns)
    /\ InitReg(Conns) /\ InitWs(Conns) /\ InitSvc({IdleRequest}) /\ InitSweep
    /\ InitWire(Conns)
    /\ InitLang({NoNormalize})
    /\ InitSignal
    /\ InitChunk

NextG ==
    \/ \E c \in Conns, id \in SessionIds, ok \in BOOLEAN :
          HandlerConnect(c, id, ok) /\ UNCHANGED <<svcVars, langVars, sigVars, chunkVars, outVars, inVars, sweepVars, streamVars, recVars, wsVars>>
    \/ \E c \in Conns :
          HandlerRegister(c) /\ UNCHANGED <<svcVars, langVars, sigVars, chunkVars, outVars, inVars, sweepVars, streamVars, recVars, wsVars>>
    \/ \E c \in Conns :
          HandlerReady(c) /\ UNCHANGED <<svcVars, langVars, sigVars, chunkVars, outVars, inVars, sweepVars, streamVars, recVars, regVars>>
    \/ \E c \in Conns : HandlerStart(c) /\ UNCHANGED <<svcVars, langVars, sigVars, chunkVars, outVars, inVars, sweepVars, streamVars, wsVars>>
    \/ \E c \in Conns : HandlerReadError(c) /\ UNCHANGED <<svcVars, langVars, sigVars, chunkVars, outVars, inVars, sweepVars, streamVars, wsVars>>
    \/ \E c \in Conns : HandlerRecognizerClose(c) /\ UNCHANGED <<svcVars, langVars, sigVars, chunkVars, outVars, inVars, sweepVars, streamVars>>
    \/ \E c \in Conns : HandlerEnd(c) /\ UNCHANGED <<svcVars, langVars, sigVars, chunkVars, outVars, inVars, sweepVars, streamVars, wsVars>>
    \/ \E c \in Conns : HandlerCleanupCancel(c) /\ UNCHANGED <<svcVars, langVars, sigVars, chunkVars, outVars, inVars, sweepVars, streamVars, wsVars>>
    \/ \E c \in Conns :
          HandlerCleanupDelete(c) /\ UNCHANGED <<svcVars, langVars, sigVars, chunkVars, outVars, inVars, sweepVars, streamVars, recVars, wsVars>>
    \/ \E c \in Conns :
          HandlerCleanupClose(c) /\ UNCHANGED <<svcVars, langVars, sigVars, chunkVars, outVars, inVars, sweepVars, streamVars, recVars, wsVars>>
    \/ \E t \in RpcThreads, id \in SessionIds :
          RpcLookup(t, id) /\ UNCHANGED <<svcVars, langVars, sigVars, chunkVars, outVars, inVars, sweepVars, streamVars, handlerVars, recVars, wsVars>>
    \/ \E t \in RpcThreads :
          RpcWsClose(t) /\ UNCHANGED <<svcVars, langVars, sigVars, chunkVars, outVars, inVars, sweepVars, streamVars, handlerVars, recVars, wsVars>>
    \/ \E t \in RpcThreads : RpcStop(t) /\ UNCHANGED <<svcVars, langVars, sigVars, chunkVars, outVars, inVars, sweepVars, streamVars, handlerVars, wsVars>>
    \/ \E t \in RpcThreads :
          RpcRecognizerClose(t) /\ UNCHANGED <<svcVars, langVars, sigVars, chunkVars, outVars, inVars, sweepVars, streamVars, handlerVars>>
    \/ \E t \in RpcThreads :
          RpcCancel(t) /\ UNCHANGED <<svcVars, langVars, sigVars, chunkVars, outVars, inVars, sweepVars, streamVars, handlerVars, wsVars>>
    \/ \E t \in RpcThreads :
          RpcDelete(t) /\ UNCHANGED <<svcVars, langVars, sigVars, chunkVars, outVars, inVars, sweepVars, streamVars, handlerVars, recVars, wsVars>>
    \/ /\ nUuid < RegUuids
       /\ StartStreamingSession
       /\ UNCHANGED <<svcVars, langVars, sigVars, chunkVars, outVars, inVars, streamVars, handlerVars, recVars, wsVars>>
    \/ \E id \in Uuids :
          ProcessAudioChunk(id)
          /\ UNCHANGED <<svcVars, langVars, sigVars, chunkVars, outVars, inVars, streamVars, handlerVars, recVars, wsVars>>
    \/ \E id \in Uuids :
          CloseStreamingSession(id)
          /\ UNCHANGED <<svcVars, langVars, sigVars, chunkVars, outVars, inVars, streamVars, handlerVars, recVars, wsVars>>
    \/ \E id \in Uuids :
          CleanupSession(id) /\ UNCHANGED <<svcVars, langVars, sigVars, chunkVars, outVars, inVars, streamVars, handlerVars, recVars, wsVars>>

SpecReg == InitG /\ [][NextG]_vars

--------------------------------------------------------------------------
(* Claims about the session registry, checked under SpecReg *)

\* Connection c performs its registration in this step
Registers(c) == hpc[c] = "register" /\ hpc'[c] # "register"

\* C8 (as claimed): a registration under an id that is present in the
\* registry fails (the handler ends without serving the session) and leaves
\* the registry as it was.
C8_DuplicateRegistrationFails ==
    [][\A c \in Conns :
          (Registers(c) /\ MapLookup(activeSessions, sid[c]).exists)
              => (activeSessions' = activeSessions /\ hpc'[c] = "done")]_vars

\* Every lookup made after a delete of its id returned, no store of the id
\* in between, reported not-found
LookupsAfterDeleteMiss ==
    /\ \A t \in RpcThreads :
          (rpc[t].pc # "idle" /\ rpc[t].afterDelete) => ~rpc[t].exists
    /\ (scRet.op # "none" /\ scRet.afterDelete) => ~scRet.exists

\* C9: after a delete of id has returned (WebSocketHandler cleanup, the
\* close RPC, SpeechClient.CloseStreamingSession or its idle sweep) a lookup
\* of id reports not-found until id is stored again: the id is absent from
\* the map, and every lookup made in that period missed.
C9_DeletedIsNotFound ==
    /\ \A id \in deleted : ~MapLookup(activeSessions, id).exists
    /\ \A id \in scDeleted : ~MapLookup(sessions, id).exists
    /\ LookupsAfterDeleteMiss

\* A close RPC and a SpeechClient call have each looked up an id whose
\* delete had returned, and one registry id has been deleted and is absent
C9_Witness ==
    /\ \E t \in RpcThreads :
          rpc[t].pc = "done" /\ rpc[t].afterDelete /\ ~rpc[t].exists
    /\ scRet.op = "process" /\ scRet.afterDelete /\ ~scRet.exists
    /\ deleted # {}

\* C10 (as claimed): every id present in the registry maps to a session
\* whose recognizer has not been closed.
C10_RegisteredRecognizerOpen ==
    \A id \in SessionIds :
        MapLookup(activeSessions, id).exists
            => ~recClosed[MapLookup(activeSessions, id).session]

--------------------------------------------------------------------------
(* SpecService: a caller that builds requests, validates them and hands    *)
(* them to TranslationService                                              *)

InitV ==
    InitStream(OneConn) /\ InitHandler(OneConn, "none") /\ InitRec(OneConn)
    /\ InitReg(OneConn) /\ InitWs(OneConn) /\ InitSvc(Requests) /\ InitSweep
    /\ InitWire(OneConn)
    /\ InitLang({NoNormalize})
    /\ InitSignal
    /\ InitChunk

otherVars ==
    <<streamVars, handlerVars, recVars, regVars, wsVars, sweepVars, outVars,
      inVars, langVars, sigVars, chunkVars>>

NextV ==
    \/ \E ok \in BOOLEAN : ServiceTranslateText(ok) /\ UNCHANGED otherVars
    \/ \E ok \in BOOLEAN :
          ServiceStartStreamingSession(ok) /\ UNCHANGED otherVars
    \/ CallerValidate /\ UNCHANGED otherVars
    \/ \E r \in Requests : CallerNewRequest(r) /\ UNCHANGED otherVars

SpecService == InitV /\ [][NextV]_vars

--------------------------------------------------------------------------
(* Claims about panics, restarts and closing, checked under SpecBridge and *)
(* SpecRec                                                                 *)

\* A run of session c's recognizer has signalled canceled with error code
\* RuntimeError
RuntimeErrorSignalled(c) ==
    \E w \in Runs(c) : \E i \in 1..Len(events[c][w]) :
        events[c][w][i] = "canceledRuntimeError"

\* C22 (as claimed): a panic in a session goroutine is recovered at the
\* goroutine's boundary and makes the session's recognizer signal canceled
\* with RuntimeError; so once the handler's goroutine has ended by a panic
\* and no goroutine of the session is left, that event has been signalled.
C22_PanicSignalsCanceled ==
    \A c \in OneConn :
        (hpc[c] = "panicked" /\ \A w \in Runs(c) : RunEnded(c, w))
            => RuntimeErrorSignalled(c)

\* A step of run w of session c: of its worker or of its result goroutine
RunStep(c, w) ==
    /\ w \in Runs(c)
    /\ WorkerNext({c})
    /\ workers'[c][w] # workers[c][w]

StartedRuns == 1..MaxStarts

\* SpecRecFair: SpecRec with every started goroutine scheduled again and
\* again
SpecRecFair ==
    SpecRec /\ \A c \in OneConn : \A w \in StartedRuns : WF_vars(RunStep(c, w))

\* Stop has returned for run w: the stop channel made for it is closed
RunStopped(c, w) == w \in Runs(c) /\ w \in stopClosed[c]

\* C23 (as claimed): once StopContinuousRecognition has returned for a run,
\* the worker of that run eventually returns.
C23_StoppedWorkerTerminates ==
    \A c \in OneConn : \A w \in StartedRuns :
        [](RunStopped(c, w) => <>(w \in Runs(c) /\ workers[c][w].pc = "done"))

\* C24 (as claimed): closed is terminal: once TranslationRecognizer.Close
\* has returned, no StartContinuousRecognition call starts a worker.
C24_ClosedIsTerminal ==
    [][\A c \in OneConn :
          recClosed[c] => Len(workers'[c]) = Len(workers[c])]_vars

--------------------------------------------------------------------------
(* gospeech: normalizeLanguageCode.  A language tag is the sequence of its *)
(* characters.                                                             *)

\* strings.ToUpper on one character
ToUpperRune(ch) ==
    CASE ch = "e" -> "E" [] ch = "n" -> "N" [] ch = "j" -> "J"
      [] ch = "a" -> "A" [] ch = "p" -> "P" [] ch = "s" -> "S"
      [] ch = "u" -> "U" [] OTHER -> ch

ToUpper(s) == IF s = <<>> THEN <<>> ELSE [i \in 1..Len(s) |-> ToUpperRune(s[i])]

\* strings.TrimSpace: leading and trailing white space removed
RECURSIVE TrimSpace(_)
TrimSpace(s) ==
    IF s = <<>> THEN <<>>
    ELSE IF s[1] = " " THEN TrimSpace(Tail(s))
    ELSE IF s[Len(s)] = " " THEN TrimSpace(SubSeq(s, 1, Len(s) - 1))
    ELSE s

\* strings.Contains(s, "-")
ContainsHyphen(s) == \E i \in 1..Len(s) : s[i] = "-"

\* strings.Split(s, "-"): the pieces between the hyphens, empty ones too
RECURSIVE SplitHyphen(_)
SplitHyphen(s) ==
    IF ~ContainsHyphen(s) THEN <<s>>
    ELSE LET i == CHOOSE k \in 1..Len(s) :
                    s[k] = "-" /\ \A j \in 1..(k - 1) : s[j] # "-"
         IN  <<SubSeq(s, 1, i - 1)>> \o SplitHyphen(SubSeq(s, i + 1, Len(s)))

\* One entry of langMap: the language code and the region it is given
LangEntry(a, b, c, d) == [key |-> <<a, b>>, val |-> <<a, b, "-", c, d>>]

langMap ==
    {LangEntry("j", "a", "J", "P"), LangEntry("e", "n", "U", "S"),
     LangEntry("z", "h", "C", "N"), LangEntry("k", "o", "K", "R"),
     LangEntry("e", "s", "E", "S"), LangEntry("f", "r", "F", "R"),
     LangEntry("d", "e", "D", "E"), LangEntry("i", "t", "I", "T"),
     LangEntry("p", "t", "B", "R"), LangEntry("r", "u", "R", "U"),
     LangEntry("a", "r", "S", "A"), LangEntry("h", "i", "I", "N"),
     LangEntry("t", "h", "T", "H"), LangEntry("v", "i", "V", "N"),
     LangEntry("i", "d", "I", "D"), LangEntry("m", "s", "M", "Y")}

normalizeLanguageCodeKeepsRegion(lang, isSourceLanguage) ==
    LET l == TrimSpace(lang)
        parts == SplitHyphen(l)
        hits == {e \in langMap : e.key = ToLower(l)}
    IN  IF l = <<>> THEN <<>>
        ELSE IF isSourceLanguage
        THEN IF ContainsHyphen(l)
             THEN IF Len(parts) # 2 THEN <<>>
                  ELSE ToLower(parts[1]) \o <<"-">> \o ToUpper(parts[2])
             ELSE IF hits # {} THEN (CHOOSE e \in hits : TRUE).val
             ELSE <<>>
        ELSE ToLower(l)

\* normalizeLanguageCode(lang, isSourceLanguage)
normalizeLanguageCode(lang, isSourceLanguage) ==
    LET l == TrimSpace(lang)
        parts == SplitHyphen(l)
        hits == {e \in langMap : e.key = ToLower(l)}
    IN  IF l = <<>> THEN <<>>
        ELSE IF isSourceLanguage
        THEN IF ContainsHyphen(l)
             THEN IF Len(parts) # 2 THEN <<>>
                  ELSE ToLower(parts[1]) \o <<"-">> \o ToUpper(parts[2])
             ELSE IF hits # {} THEN (CHOOSE e \in hits : TRUE).val
             ELSE <<>>
        ELSE IF ContainsHyphen(l) THEN ToLower(parts[1])
        ELSE ToLower(l)

\* The characters of the tags a caller passes, and the tags
TagChars == {"e", "N", "-", " "}

Tags == UNION {[1..n -> TagChars] : n \in 0..MaxTagLen}

NormalizeCalls ==
    [lang : Tags, isSourceLanguage : BOOLEAN, ret : {<<>>}, done : {FALSE},
     trip : {<<>>}, tripped : {FALSE}]

\* A caller's normalizeLanguageCode(lang, isSourceLanguage) returns
CallerNormalize ==
    /\ ~normCall.done
    /\ normCall' = [normCall EXCEPT
                      !.ret = normalizeLanguageCode(normCall.lang,
                                                    normCall.isSourceLanguage),
                      !.done = TRUE]

\* The region of a normalized source tag l-R: what follows its hyphen
RegionOf(tag) == SplitHyphen(tag)[2]

\* A caller that got l-R from source normalization of lang normalizes lang
\* as a target, appends "-" and R, and normalizes that as a source
CallerRoundTrip ==
    /\ normCall.done
    /\ ~normCall.tripped
    /\ normCall.isSourceLanguage
    /\ normCall.ret # <<>>
    /\ normCall' = [normCall EXCEPT
                      !.trip = normalizeLanguageCode(
                                   normalizeLanguageCode(normCall.lang, FALSE)
                                       \o <<"-">> \o RegionOf(normCall.ret),
                                   TRUE),
                      !.tripped = TRUE]

\* The languages of the set-up frames: the documented client's "ja" and
\* "en", or a source language that is no language code
SetupLanguages(kind) ==
    [SourceLanguage |-> IF kind = "badLang" THEN <<"x", "x">>
                        ELSE <<"j", "a">>,
     TargetLanguage |-> <<"e", "n">>]

\* session := &StreamingSession{SourceLanguage: setupMsg.SourceLanguage,
\* TargetLanguage: setupMsg.TargetLanguage, ...}: the fields of the session
\* the handler of c registers
SessionLanguages(c) == SetupLanguages(setup[c])

--------------------------------------------------------------------------
(* TranslationRecognizer.RecognizeOnce                                     *)

\* The call signals ev and goes on at pc, or returns ret
OnceStep(c, pc, evs, ret) ==
    once' = [once EXCEPT ![c].pc = pc, ![c].events = @ \o evs,
                         ![c].ret = ret]

\* RecognizeOnce entered: the subscription key test, r.raiseSessionStarted()
OnceBegin(c, keySet) ==
    /\ once[c].pc \in {"idle", "done"}
    /\ once[c].calls < MaxCalls
    /\ once' = [once EXCEPT ![c] =
                  IF keySet
                  THEN [pc |-> "connect", events |-> <<"sessionStarted">>,
                        reads |-> 0, sent |-> FALSE, ret |-> "none",
                        calls |-> @.calls + 1]
                  ELSE [pc |-> "done", events |-> <<>>,
                        reads |-> 0, sent |-> FALSE, ret |-> "error",
                        calls |-> @.calls + 1]]
    /\ inbound' = [inbound EXCEPT ![c] = <<>>]
    /\ outbound' = [outbound EXCEPT ![c] = <<>>]
    /\ UNCHANGED nRid

\* conn, err := r.connectToSpeechService()
OnceConnect(c, ok) ==
    /\ once[c].pc = "connect"
    /\ IF ok THEN OnceStep(c, "read", <<"speechStartDetected">>, "none")
             ELSE OnceStep(c, "done", <<"canceled">>, "error")
    /\ UNCHANGED <<inbound, outVars>>

\* What one Read of the audio source gives: n > 0, n = 0 with no error (a
\* push stream with nothing queued), io.EOF, another error
OnceReads == {"data", "empty", "eof", "err"}

\* n, err := r.audioConfig.Source().(io.Reader).Read(buffer) and the tests
\* of err and n that follow it
OnceRead(c, r) ==
    /\ once[c].pc = "read"
    /\ once' = [once EXCEPT
                  ![c].reads = @ + 1,
                  ![c].pc = IF r = "data" THEN "send" ELSE "done",
                  ![c].events = IF r = "err" THEN @ \o <<"canceled">> ELSE @,
                  ![c].ret = IF r = "data" THEN "none" ELSE "error"]
    /\ UNCHANGED <<inbound, outVars>>

\* conn.sendAudioData(buffer[:n])
OnceSend(c, ok) ==
    /\ once[c].pc = "send"
    /\ nRid' = nRid + 1
    /\ IF ok
       THEN /\ once' = [once EXCEPT ![c].pc = "recv", ![c].sent = TRUE]
            /\ outbound' = [outbound EXCEPT
                              ![c] = @ \o SendAudioDataEnvelopes(0, nRid + 1)]
       ELSE /\ OnceStep(c, "done", <<"canceled">>, "error")
            /\ UNCHANGED outbound
    /\ UNCHANGED inbound

\* result, err := conn.receiveResults() on the text frame m, the error
\* test, r.raiseSpeechEndDetected()
OnceReceive(c, m) ==
    /\ once[c].pc = "recv"
    /\ inbound' = [inbound EXCEPT ![c] = Append(@, m)]
    /\ CASE ReceiveResults(m) = "err" ->
              OnceStep(c, "done", <<"canceled">>, "error")
         [] ReceiveResults(m) = "final" ->
              OnceStep(c, "raise", <<"speechEndDetected">>, "none")
         [] OTHER ->
              OnceStep(c, "raiseNil", <<"speechEndDetected">>, "none")
    /\ UNCHANGED outVars

\* conn.receiveResults() when ReadMessage fails
OnceReceiveError(c) ==
    /\ once[c].pc = "recv"
    /\ OnceStep(c, "done", <<"canceled">>, "error")
    /\ UNCHANGED <<inbound, outVars>>

\* r.raiseRecognizing(result); r.raiseRecognized(result);
\* r.raiseSessionStopped(); return result, nil.  raiseRecognizing reads
\* result.Offset: with a nil result the call panics there.
OnceRaise(c) ==
    /\ once[c].pc \in {"raise", "raiseNil"}
    /\ IF once[c].pc = "raise"
       THEN OnceStep(c, "done",
                     <<"recognizing", "recognized", "sessionStopped">>,
                     "result")
       ELSE OnceStep(c, "done", <<>>, "panic")
    /\ UNCHANGED <<inbound, outVars>>

--------------------------------------------------------------------------
(* SpecOnce: calls of RecognizeOnce on one recognizer                      *)

onceOthers ==
    <<streamVars, handlerVars, recVars, regVars, wsVars, svcVars, langVars, sigVars, chunkVars, sweepVars>>

InitO ==
    InitStream(OneConn) /\ InitHandler(OneConn, "loop") /\ InitRec(OneConn)
    /\ InitReg(OneConn) /\ InitWs(OneConn) /\ InitSvc({IdleRequest})
    /\ InitSweep
    /\ InitWire(OneConn)
    /\ InitLang({NoNormalize})
    /\ InitSignal
    /\ InitChunk

NextO ==
    \/ \E c \in OneConn : \E keySet \in BOOLEAN :
          OnceBegin(c, keySet) /\ UNCHANGED onceOthers
    \/ \E c \in OneConn : \E ok \in BOOLEAN :
          OnceConnect(c, ok) /\ UNCHANGED onceOthers
    \/ \E c \in OneConn : \E r \in OnceReads :
          OnceRead(c, r) /\ UNCHANGED onceOthers
    \/ \E c \in OneConn : \E ok \in BOOLEAN :
          OnceSend(c, ok) /\ UNCHANGED onceOthers
    \/ \E c \in OneConn : \E m \in ProviderFrames :
          OnceReceive(c, m) /\ UNCHANGED onceOthers
    \/ \E c \in OneConn : OnceReceiveError(c) /\ UNCHANGED onceOthers
    \/ \E c \in OneConn : OnceRaise(c) /\ UNCHANGED onceOthers

SpecOnce == InitO /\ [][NextO]_vars

--------------------------------------------------------------------------
(* SpecLang: normalizeLanguageCode on every tag of the bounded alphabet    *)

langOthers ==
    <<streamVars, handlerVars, recVars, regVars, wsVars, svcVars, sigVars,
      chunkVars, sweepVars, outVars, inVars>>

InitN ==
    InitStream(OneConn) /\ InitHandler(OneConn, "loop") /\ InitRec(OneConn)
    /\ InitReg(OneConn) /\ InitWs(OneConn) /\ InitSvc({IdleRequest})
    /\ InitSweep
    /\ InitWire(OneConn)
    /\ InitLang(NormalizeCalls)
    /\ InitSignal
    /\ InitChunk

NextN ==
    \/ CallerNormalize /\ UNCHANGED langOthers
    \/ CallerRoundTrip /\ UNCHANGED langOthers

SpecLang == InitN /\ [][NextN]_vars

--------------------------------------------------------------------------
(* SpecSignal: one EventSignal used by several goroutines                  *)

signalOthers ==
    <<streamVars, handlerVars, recVars, regVars, wsVars, svcVars, langVars,
      chunkVars, sweepVars, outVars, inVars>>

InitE ==
    InitStream(OneConn) /\ InitHandler(OneConn, "loop") /\ InitRec(OneConn)
    /\ InitReg(OneConn) /\ InitWs(OneConn) /\ InitSvc({IdleRequest})
    /\ InitSweep
    /\ InitWire(OneConn)
    /\ InitLang({NoNormalize})
    /\ InitSignal
    /\ InitChunk

NextE ==
    \/ \E t \in Goroutines : \E op \in {"Connect", "Disconnect"} :
          SigLock(t, op) /\ UNCHANGED signalOthers
    \/ \E t \in Goroutines : SigConnect(t) /\ UNCHANGED signalOthers
    \/ \E t \in Goroutines : SigDisconnect(t) /\ UNCHANGED signalOthers
    \/ \E t \in Goroutines : SigRLock(t) /\ UNCHANGED signalOthers
    \/ \E t \in Goroutines : SigInvoke(t) /\ UNCHANGED signalOthers
    \/ \E t \in Goroutines : SigCallbackReturns(t) /\ UNCHANGED signalOthers
    \/ \E t \in Goroutines : SigReturn(t) /\ UNCHANGED signalOthers

SpecSignal == InitE /\ [][NextE]_vars

--------------------------------------------------------------------------
(* SpecStall: a client that keeps sending audio to a session whose one     *)
(* worker may end (failed connect, upstream error, failed send).  Every    *)
(* frame has one byte, so that the queue can fill to its capacity.         *)

stallOthers ==
    <<svcVars, langVars, sigVars, chunkVars, outVars, inVars, sweepVars, regVars, wsVars>>

InitT ==
    InitStream(OneConn) /\ InitHandler(OneConn, "loop") /\ InitRec(OneConn)
    /\ InitReg(OneConn) /\ InitWs(OneConn) /\ InitSvc({IdleRequest})
    /\ InitSweep
    /\ InitWire(OneConn)
    /\ InitLang({NoNormalize})
    /\ InitSignal
    /\ InitChunk

NextT ==
    \/ \E c \in OneConn :
          /\ nFrames[c] < FillFrames
          /\ HandlerBinaryFrame(c, 1)
          /\ UNCHANGED <<stallOthers, recVars>>
    \/ \E c \in OneConn :
          HandlerWriteSend(c) /\ UNCHANGED <<stallOthers, recVars>>
    \/ \E c \in OneConn :
          /\ Len(workers[c]) = 0
          /\ StartContinuousRecognition(c)
          /\ UNCHANGED <<stallOthers, streamVars, handlerVars>>
    \/ \E c \in OneConn : \E w \in Runs(c) :
          WorkerSessionStarted(c, w)
          /\ UNCHANGED <<stallOthers, streamVars, handlerVars>>
    \/ \E c \in OneConn : \E w \in Runs(c) : \E ok \in BOOLEAN :
          WorkerConnect(c, w, ok)
          /\ UNCHANGED <<stallOthers, streamVars, handlerVars>>
    \/ \E c \in OneConn : \E w \in Runs(c) :
          WorkerSelect(c, w)
          /\ UNCHANGED <<stallOthers, streamVars, handlerVars>>
    \/ \E c \in OneConn : \E w \in Runs(c) :
          WorkerRead(c, w) /\ UNCHANGED <<stallOthers, handlerVars>>
    \/ \E c \in OneConn : \E w \in Runs(c) :
          WorkerReadSelect(c, w) /\ UNCHANGED <<stallOthers, handlerVars>>
    \/ \E c \in OneConn : \E w \in Runs(c) : \E ok \in BOOLEAN :
          WorkerSend(c, w, ok)
          /\ UNCHANGED <<svcVars, langVars, sigVars, chunkVars, inVars, sweepVars,
                         regVars, wsVars, streamVars, handlerVars>>
    \/ \E c \in OneConn : \E w \in Runs(c) :
          WorkerCloseConn(c, w)
          /\ UNCHANGED <<stallOthers, streamVars, handlerVars>>
    \/ \E c \in OneConn : \E w \in Runs(c) :
          ResultReceive(c, w, "err")
          /\ UNCHANGED <<stallOthers, streamVars, handlerVars>>

SpecStall == InitT /\ [][NextT]_vars

--------------------------------------------------------------------------
(* SpecWire: one run of a recognizer whose client sends no audio, under    *)
(* any text frames from the provider                                       *)

wireOthers ==
    <<streamVars, handlerVars, regVars, wsVars, svcVars, langVars, sigVars, chunkVars, sweepVars, outVars>>

InitX ==
    InitStream(OneConn) /\ InitHandler(OneConn, "loop") /\ InitRec(OneConn)
    /\ InitReg(OneConn) /\ InitWs(OneConn) /\ InitSvc({IdleRequest})
    /\ InitSweep
    /\ InitWire(OneConn)
    /\ InitLang({NoNormalize})
    /\ InitSignal
    /\ InitChunk

NextX ==
    \/ \E c \in OneConn :
          /\ Len(workers[c]) = 0
          /\ StartContinuousRecognition(c)
          /\ UNCHANGED <<wireOthers, inVars>>
    \/ \E c \in OneConn : \E w \in Runs(c) :
          WorkerSessionStarted(c, w) /\ UNCHANGED <<wireOthers, inVars>>
    \/ \E c \in OneConn : \E w \in Runs(c) : \E ok \in BOOLEAN :
          WorkerConnect(c, w, ok) /\ UNCHANGED <<wireOthers, inVars>>
    \/ \E c \in OneConn : \E w \in Runs(c) :
          WorkerSelect(c, w) /\ UNCHANGED <<wireOthers, inVars>>
    \/ \E c \in OneConn : \E w \in Runs(c) :
          WorkerRead(c, w)
          /\ UNCHANGED <<handlerVars, regVars, wsVars, svcVars, langVars, sigVars, chunkVars, sweepVars,
                         outVars, inVars>>
    \/ \E c \in OneConn : \E w \in Runs(c) :
          WorkerReadSelect(c, w)
          /\ UNCHANGED <<handlerVars, regVars, wsVars, svcVars, langVars, sigVars, chunkVars, sweepVars,
                         outVars, inVars>>
    \/ \E c \in OneConn : \E w \in Runs(c) :
          WorkerCloseConn(c, w) /\ UNCHANGED <<wireOthers, inVars>>
    \/ \E c \in OneConn : \E w \in Runs(c) : \E m \in ProviderFrames :
          /\ nMsgs[c] < MaxMsgs
          /\ ResultReceiveFrame(c, w, m)
          /\ UNCHANGED wireOthers
    \/ \E c \in OneConn : \E w \in Runs(c) :
          ResultReceive(c, w, "err") /\ UNCHANGED <<wireOthers, inVars>>
    \/ \E c \in OneConn : \E w \in Runs(c) :
          ResultRaiseRecognizing(c, w) /\ UNCHANGED <<wireOthers, inVars>>
    \/ \E c \in OneConn : \E w \in Runs(c) :
          ResultRaiseRecognized(c, w) /\ UNCHANGED <<wireOthers, inVars>>

SpecWire == InitX /\ [][NextX]_vars

--------------------------------------------------------------------------
(* Claims about the provider's frames, checked under SpecWire and SpecPump *)

\* A frame that decodes: a header and a JSON body
Decodes(m) == m.body \in {"final", "object"}

\* An interim hypothesis: a speech.hypothesis frame or a speech.phrase that
\* is not final
IsInterim(m) ==
    /\ Decodes(m)
    /\ \/ m.path = "speech.hypothesis"
       \/ m.path = "speech.phrase" /\ m.body # "final"

IsFinal(m) == m.path = "speech.phrase" /\ m.body = "final"

CountIn(seq, Test(_)) == Cardinality({i \in 1..Len(seq) : Test(seq[i])})

IsRecognizing(ev) == ev = "recognizing"

IsRecognized(ev) == ev = "recognized"

\* C25 (as claimed): every decoded result signals exactly one event,
\* recognizing for an interim hypothesis and recognized for a final phrase;
\* so whenever the result goroutine is not in the middle of raising, the
\* run has signalled as many recognizing events as interim frames were
\* received and as many recognized events as final frames.
C25_OneEventPerResult ==
    \A c \in OneConn : \A w \in Runs(c) :
        workers[c][w].rpc \in {"none", "recv", "done"}
        => /\ CountIn(events[c][w], IsRecognizing)
                = CountIn(inbound[c], IsInterim)
           /\ CountIn(events[c][w], IsRecognized)
                = CountIn(inbound[c], IsFinal)

\* The Paths the receiver knows
KnownPaths == {"turn.start", "speech.hypothesis", "speech.phrase"}

\* C28 (as claimed): taking a text frame whose Path is none of the known
\* ones changes nothing in the session, whatever its body: it signals no
\* event and puts no error on the worker's error channel.
C28_UnknownPathIgnored ==
    [][\A c \in OneConn :
          (/\ Len(inbound'[c]) > Len(inbound[c])
           /\ inbound'[c][Len(inbound'[c])].path \notin KnownPaths)
          => /\ events'[c] = events[c]
             /\ \A w \in Runs(c) : workers'[c][w].errCh = workers[c][w].errCh]_vars

\* The envelopes run w of connection c has written to the provider
EnvelopesOf(c, w) == SelectSeq(outbound[c], LAMBDA e : e.run = w)

IsConfig(e) == e.path = "speech.config"

IsAudio(e) == e.path = "audio"

\* C26 (as claimed): within one session the speech.config envelope is
\* written exactly once, before the first audio envelope, and every audio
\* envelope carries one and the same X-RequestId.
C26_ConfigOnceSameRequestId ==
    \A c \in OneConn : \A w \in Runs(c) :
        LET sent == EnvelopesOf(c, w)
        IN  sent # <<>>
            => /\ IsConfig(sent[1])
               /\ CountIn(sent, IsConfig) = 1
               /\ \A i, j \in 1..Len(sent) :
                     IsAudio(sent[i]) /\ IsAudio(sent[j])
                     => sent[i].rid = sent[j].rid

\* C27 (as claimed): a RecognizeOnce call that has forwarded its one chunk
\* skips the frames that carry no result without error or crash and
\* returns the first final result: the call never ends in a panic, it
\* signals sessionStarted first and a terminal event (sessionStopped or
\* canceled) last, and a frame without a result never ends it.
C27_OnceSkipsToFinal ==
    \A c \in OneConn :
        once[c].sent /\ once[c].pc = "done"
        => /\ once[c].ret # "panic"
           /\ once[c].events[1] = "sessionStarted"
           /\ once[c].events[Len(once[c].events)]
                \in {"sessionStopped", "canceled"}
           /\ once[c].reads = 1
           /\ \A i \in 1..Len(inbound[c]) :
                 ReceiveResults(inbound[c][i]) = "nil" => i < Len(inbound[c])

\* C29 (as claimed): for a source-language tag that contains a hyphen,
\* normalization succeeds exactly when splitting on the hyphen gives two
\* parts that are both non-empty, and then gives the first part in lower
\* case, a hyphen, the second part in upper case; with two hyphens or an
\* empty part the result is empty.
C29_SourceTagTwoParts ==
    LET l == TrimSpace(normCall.lang)
        parts == SplitHyphen(l)
        wellFormed == /\ Len(parts) = 2
                      /\ parts[1] # <<>>
                      /\ parts[2] # <<>>
    IN  (normCall.done /\ normCall.isSourceLanguage /\ ContainsHyphen(l))
        => /\ normCall.ret # <<>> <=> wellFormed
           /\ wellFormed
                => normCall.ret
                     = ToLower(parts[1]) \o <<"-">> \o ToUpper(parts[2])

\* C30 (as claimed): the source and target language stored in every
\* registered StreamingSession are normalized forms: normalizing them again
\* gives them back.
C30_StoredLanguagesNormalized ==
    \A id \in BridgeIds :
        MapLookup(activeSessions, id).exists
        => LET stored == SessionLanguages(MapLookup(activeSessions, id).session)
           IN  /\ normalizeLanguageCode(stored.SourceLanguage, TRUE)
                    = stored.SourceLanguage
               /\ normalizeLanguageCode(stored.TargetLanguage, FALSE)
                    = stored.TargetLanguage

\* C31: for every tag that source normalization accepts with result l-R,
\* normalizing the tag as a target, appending "-" and R and normalizing
\* that as a source gives l-R again.
C31_TargetThenSourceRoundTrip ==
    (normCall.isSourceLanguage /\ normCall.done /\ normCall.ret # <<>>
     /\ normCall.tripped)
    => normCall.trip = normCall.ret

\* A hyphenated tag in mixed case with white space around it has been
\* accepted and taken through the round trip
C31_Witness ==
    /\ normCall.isSourceLanguage /\ normCall.done /\ normCall.tripped
    /\ normCall.lang = <<" ", "N", "-", "e">>
    /\ normCall.ret = <<"n", "-", "E">>
    /\ normCall.trip = <<"n", "-", "E">>

--------------------------------------------------------------------------
(* Claims about EventSignal, checked under SpecSignal                      *)

\* The callbacks connected and not disconnected since
Registered == {callbacks[i] : i \in 1..Len(callbacks)}

\* C32: under concurrent Connect, Disconnect and Signal calls every Signal
\* invokes, on its own goroutine and once each, the callbacks of one
\* snapshot of the registered set: while a Signal ranges, the registered
\* callbacks are those of its snapshot, what it has invoked is a prefix of
\* the snapshot without repetition, and no callback is ever invoked after
\* a Disconnect dropped it.
C32_SignalInvokesSnapshotOnce ==
    \A t \in Goroutines :
        LET call == sigCalls[t]
        IN  /\ call.pc \in {"range", "callback"}
               => call.snap = callbacks
            /\ call.op = "Signal"
               => /\ Len(call.made) <= Len(call.snap)
                  /\ \A i \in 1..Len(call.made) :
                        /\ call.made[i].cb = call.snap[i]
                        /\ call.made[i].live
                        /\ call.made[i].by = t
                  /\ \A i, j \in 1..Len(call.snap) :
                        call.snap[i] = call.snap[j] => i = j
                  /\ call.pc = "idle" => Len(call.made) = Len(call.snap)

\* A Signal has returned after invoking a callback, while another
\* goroutine's Disconnect has dropped callbacks
C32_Witness ==
    \E t \in Goroutines :
        /\ sigCalls[t].op = "Signal"
        /\ sigCalls[t].pc = "idle"
        /\ Len(sigCalls[t].made) >= 1
        /\ sigHist.dropped # {}
        /\ \E u \in Goroutines : u # t /\ sigCalls[u].op = "Disconnect"

\* The goroutines that hold s.mu, as writer or as reader
LockHolders == mu.r \cup ({mu.w} \ {NoGoroutine})

\* C33 (as claimed): no goroutine holds a lock while it is suspended in a
\* write on the client's WebSocket; in particular the event stream's mutex
\* is not held while a result callback writes to the client.
C33_NoLockAcrossClientWrite ==
    \A t \in Goroutines : sigCalls[t].pc = "callback" => t \notin LockHolders

--------------------------------------------------------------------------
(* Claims about the worker's exits, checked under SpecRec                  *)

IsTerminal(ev) == ev \in {"sessionStopped", "canceled"}

\* The worker of run w has left its loop or never entered it
WorkerExited(c, w) == workers[c][w].pc \in {"closing", "done"}

WorkerAlive(c) == \E w \in Runs(c) : workers[c][w].pc # "done"

\* C35 (as claimed): continuousRunning is true only while a worker started
\* by StartContinuousRecognition is alive: once the worker has exited on
\* its own the flag is false.
C35_RunningOnlyWhileWorkerAlive ==
    \A c \in OneConn : continuousRunning[c] => WorkerAlive(c)

\* The handler of c is inside pushStream.Write at the channel send and the
\* send cannot proceed: the queue is full
WriteBlocked(c) ==
    wpc[c] = "sending" /\ ~chClosed[c] /\ ~ChanCanSend(buffer[c])

\* C36 (as claimed): the read loop never stays blocked inside a write to the
\* push stream: once the session's worker has terminated the handler is
\* never waiting on a full queue, which nothing would drain any more.
C36_NoWriteBlockedAfterWorkerExit ==
    \A c \in OneConn :
        (Len(workers[c]) > 0 /\ ~WorkerAlive(c)) => ~WriteBlocked(c)

--------------------------------------------------------------------------
(* SpecRunFair: one recognizer and a single run of its worker, stopped or  *)
(* cancelled at any moment, with the run's goroutines scheduled again and  *)
(* again.                                                                  *)

runOthers ==
    <<svcVars, langVars, sigVars, chunkVars, outVars, inVars, sweepVars,
      regVars, wsVars>>

InitU ==
    InitStream(OneConn) /\ InitHandler(OneConn, "loop") /\ InitRec(OneConn)
    /\ InitReg(OneConn) /\ InitWs(OneConn) /\ InitSvc({IdleRequest})
    /\ InitSweep
    /\ InitWire(OneConn)
    /\ InitLang({NoNormalize})
    /\ InitSignal
    /\ InitChunk

NextU ==
    \/ \E c \in OneConn :
          /\ nFrames[c] < RecFrames
          /\ HandlerBinaryFrame(c, 1)
          /\ UNCHANGED <<runOthers, recVars>>
    \/ \E c \in OneConn :
          HandlerWriteSend(c) /\ UNCHANGED <<runOthers, recVars>>
    \/ \E c \in OneConn :
          /\ Len(workers[c]) = 0
          /\ StartContinuousRecognition(c)
          /\ UNCHANGED <<runOthers, streamVars, handlerVars>>
    \/ \E c \in OneConn :
          StopContinuousRecognition(c)
          /\ UNCHANGED <<runOthers, streamVars, handlerVars>>
    \/ \E c \in OneConn :
          CancelContext(c) /\ UNCHANGED <<runOthers, streamVars, handlerVars>>
    \/ WorkerNext(OneConn)

SpecRunFair ==
    /\ InitU /\ [][NextU]_vars
    /\ \A c \in OneConn : WF_vars(RunStep(c, 1))

--------------------------------------------------------------------------
(* Claims about the result goroutine, checked under SpecRunFair *)

\* The result goroutine of run w has returned, or was never started
\* because the worker returned before the go statement
ResultReturned(c, w) == workers[c][w].rpc \in {"done", "none"}

\* The events the result goroutine signals
IsResultEvent(ev) == ev \in {"recognizing", "recognized"}

\* C40: the result goroutine of a run sends at most one error on errCh and
\* finds room for it (the channel never holds more than its capacity of
\* one, received or not); once its read has failed it has returned and
\* signals no further event; and once the worker has left its loop, closing
\* the upstream connection on its way out, the goroutine eventually
\* returns.
C40_ResultGoroutineTerminates ==
    /\ [](\A c \in OneConn : \A w \in Runs(c) : workers[c][w].errCh <= 1)
    /\ [][\A c \in OneConn : \A w \in Runs(c) :
             workers[c][w].rpc = "done"
             => /\ workers'[c][w].rpc = "done"
                /\ CountIn(events'[c][w], IsResultEvent)
                      = CountIn(events[c][w], IsResultEvent)]_vars
    /\ \A c \in OneConn : \A w \in {1} :
          (w \in Runs(c) /\ WorkerExited(c, w))
             ~> (w \in Runs(c) /\ ResultReturned(c, w))

\* The worker left on a stop while the goroutine was reading: the goroutine
\* has raised events, has failed on the closed connection and has left its
\* error in errCh, which nobody receives
C40_Witness ==
    \E c \in OneConn : \E w \in Runs(c) :
        /\ workers[c][w].pc = "done"
        /\ workers[c][w].upc = "closed"
        /\ workers[c][w].rpc = "done"
        /\ workers[c][w].errCh = 1
        /\ CountIn(events[c][w], IsResultEvent) = 2
        /\ CountIn(events[c][w], LAMBDA ev : ev = "sessionStopped") = 1

--------------------------------------------------------------------------
(* Claims about connections that share a session id, checked under SpecReg *)

\* The handler of c has written the ready frame and has not begun its
\* teardown
ReadyAndServing(c) == hpc[c] \in {"start", "loop", "initwrite"}

\* No CloseStreamingSessionHandler call has been made
NoRpcCall == \A t \in RpcThreads : rpc[t] = NewRpc

\* C37 (as claimed): when WebSocket connections use the same session id,
\* tearing one down removes only its own entry: a connection that has been
\* sent ready and has not begun its teardown finds its own session record
\* in the registry under its id (no close request being involved).
C37_OwnRecordWhileServing ==
    \A c \in Conns :
        (ReadyAndServing(c) /\ NoRpcCall)
        => MapLookup(activeSessions, sid[c]) = [session |-> c, exists |-> TRUE]

--------------------------------------------------------------------------
(* Claims about Write racing Close, checked under SpecStream               *)

\* C38 (as claimed): no interleaving of Write and Close on a push stream
\* sends on the closed channel, and Close called twice does not close the
\* channel twice: neither a Write nor a Close ever panics.
C38_NoSendOrCloseOnClosedChannel ==
    \A c \in OneConn : wpc[c] # "panic" /\ cpc[c] # "panic"

--------------------------------------------------------------------------
(* Claims about the session's Config, checked under SpecSweep              *)

\* C39 (as claimed): a session's Config is never used after it has been
\* closed: no ProcessAudioChunk call creates its synthesizer from a Config
\* that CloseStreamingSession or the idle sweep has closed and removed.
C39_ConfigNotUsedAfterClose == usedAfterClose = {}

--------------------------------------------------------------------------
(* Claims about request validation, checked under SpecService *)

\* The lower-case spelling of each audio format a caller may give
LowerCased(f) ==
    CASE f = <<"W", "A", "V">> -> <<"w", "a", "v">>
      [] f = <<"M", "p", "3">> -> <<"m", "p", "3">>
      [] OTHER -> f

AcceptedFormats ==
    {<<"w", "a", "v">>, <<"m", "p", "3">>, <<"o", "g", "g">>,
     <<"f", "l", "a", "c">>}

AcceptedLanguages == {"ja", "en", "fr", "es", "de", "zh", "ko"}

\* Whether a field of request r is empty or unsupported
Offending(r, field) ==
    CASE field = "source language" -> r.SourceLanguage \notin AcceptedLanguages
      [] field = "target language" -> r.TargetLanguage \notin AcceptedLanguages
      [] field = "text" -> IsTextRequest(r) /\ r.Text = ""
      [] field = "audio format" ->
            IsStreamingRequest(r)
            /\ LowerCased(r.AudioFormat) \notin AcceptedFormats
      [] OTHER -> FALSE

RequestFields == {"source language", "target language", "text", "audio format"}

FailsValidation(r) == \E field \in RequestFields : Offending(r, field)

\* The field an error names in its innermost message
FieldNamed(err) ==
    LET m == err[Len(err)]
    IN  CASE m \in {"source language is required",
                    "unsupported source language"} -> "source language"
          [] m \in {"target language is required",
                    "unsupported target language"} -> "target language"
          [] m = "text is required" -> "text"
          [] m \in {"audio format is required",
                    "unsupported audio format"} -> "audio format"
          [] OTHER -> "none"

\* C19: a TranslateText or StartStreamingSession call whose request has an
\* empty or unsupported language, an empty text or an unsupported audio
\* format returns an error that names an offending field, returns no
\* result, and does not call the SpeechService.
C19_InvalidRequestRejected ==
    (/\ svcRet.op \in {"TranslateText", "StartStreamingSession"}
     /\ FailsValidation(svcRet.given))
    => /\ svcRet.err # NoError
       /\ Offending(svcRet.given, FieldNamed(svcRet.err))
       /\ svcRet.result = NoResult
       /\ ~svcRet.invoked

C19_Witness ==
    /\ svcRet.op = "TranslateText"
    /\ svcRet.given.SourceLanguage \in AcceptedLanguages
    /\ svcRet.given.TargetLanguage \in AcceptedLanguages
    /\ svcRet.given.Text = ""
    /\ FieldNamed(svcRet.err) = "text"
    /\ svcRet.result = NoResult
    /\ speechCalls = 0

\* What the claim expects of a streaming request
PassesValidation(r) ==
    /\ r.SourceLanguage # "" /\ r.TargetLanguage # "" /\ r.AudioFormat # <<>>
    /\ r.SourceLanguage \in AcceptedLanguages
    /\ r.TargetLanguage \in AcceptedLanguages
    /\ LowerCased(r.AudioFormat) \in AcceptedFormats

\* C20: StreamingTranslationRequest.Validate returns nil exactly when the
\* three fields are non-empty, both languages are supported and the
\* lower-cased AudioFormat is one of wav, mp3, ogg, flac; on success only
\* AudioFormat changes, to its lower-case form, and validating the request
\* it leaves returns nil again and changes nothing.
C20_StreamingValidate ==
    svcRet.op = "Validate"
    => /\ (svcRet.err = NoError) <=> PassesValidation(svcRet.given)
       /\ svcRet.err = NoError
          => /\ svcRet.after =
                  [svcRet.given EXCEPT
                     !.AudioFormat = LowerCased(svcRet.given.AudioFormat)]
             /\ LET again == StreamingTranslationRequestValidate(svcRet.after)
                IN  again.err = NoError /\ again.req = svcRet.after

C20_Witness ==
    /\ svcRet.op = "Validate"
    /\ svcRet.given.AudioFormat = <<"W", "A", "V">>
    /\ svcRet.err = NoError
    /\ svcRet.after.AudioFormat = <<"w", "a", "v">>
    /\ svcReq = svcRet.after

--------------------------------------------------------------------------
(* SpecSweep: the SpeechClient's sessions under callers that start, use    *)
(* and close them while time passes and the idle-session sweep runs        *)

MaxIdleTimes == 0..MaxIdle

sweepOthers ==
    <<streamVars, handlerVars, recVars, wsVars, svcVars, langVars, sigVars,
      outVars, inVars>>

InitW ==
    InitStream(OneConn) /\ InitHandler(OneConn, "none") /\ InitRec(OneConn)
    /\ InitReg(OneConn) /\ InitWs(OneConn) /\ InitSvc({IdleRequest})
    /\ InitSweep
    /\ InitWire(OneConn)
    /\ InitLang({NoNormalize})
    /\ InitSignal
    /\ InitChunk

NextW ==
    \/ StartStreamingSession /\ UNCHANGED <<sweepOthers, chunkVars>>
    \/ \E id \in Uuids : ProcessAudioChunkLocked(id) /\ UNCHANGED sweepOthers
    \/ \E id \in Uuids :
          ProcessAudioChunkSynthesize(id) /\ UNCHANGED sweepOthers
    \/ \E id \in Uuids :
          CloseStreamingSession(id) /\ UNCHANGED <<sweepOthers, chunkVars>>
    \/ \E m \in MaxIdleTimes :
          SweepBegin(m) /\ UNCHANGED <<sweepOthers, chunkVars>>
    \/ SweepRun /\ UNCHANGED <<sweepOthers, chunkVars>>
    \/ Tick /\ UNCHANGED <<sweepOthers, chunkVars>>

SpecSweep == InitW /\ [][NextW]_vars

--------------------------------------------------------------------------
(* Claims about the idle-session sweep, checked under SpecSweep *)

\* C21: a finished sweep has removed and closed exactly the sessions that
\* were registered with a lastAccess older than maxIdleTime at the sweep's
\* reading of the clock; every other registered session, accessed within
\* maxIdleTime, is still registered and its Config is not closed.
C21_SweepRemovesExactlyIdle ==
    lastSweep.done
    => \A id \in Uuids :
          lastSweep.before[id] # NoSession
          => IF lastSweep.now - lastSweep.access[id] > lastSweep.maxIdleTime
             THEN /\ lastSweep.after[id] = NoSession
                  /\ id \in lastSweep.closedAfter
             ELSE /\ lastSweep.after[id] # NoSession
                  /\ id \notin lastSweep.closedAfter

C21_Witness ==
    /\ lastSweep.done
    /\ \E idle, active \in Uuids :
          /\ lastSweep.before[idle] # NoSession
          /\ lastSweep.before[active] # NoSession
          /\ lastSweep.after[idle] = NoSession
          /\ lastSweep.after[active] # NoSession
          /\ lastSweep.access[active] > lastSweep.access[idle]

==========================================================================
